---- MODULE Spec2Model ----
(***************************************************************************)
(* Model of the request-orchestration layer of the resume tuner:           *)
(*   - callPplxApi (utils/pplxApi.ts): one chat-completion request with    *)
(*     timeout and retry;                                                  *)
(*   - extractKeywordsWithPplx (utils/keywordExtractor.ts): fingerprint,   *)
(*     pending set, keyword cache, parser cascade, enrichment;             *)
(*   - KeywordMatchVisualizer (components/KeywordMatchVisualizer.tsx):     *)
(*     validateApiOnce, getKeywords and the local keyword extraction.      *)
(* Text is modelled by TLA+ strings, character by character.  Time is in   *)
(* milliseconds, as in the source.  JavaScript runs one synchronous        *)
(* segment at a time, so every action is the code between two awaits.      *)
(***************************************************************************)
EXTENDS Integers, Sequences, FiniteSets, TLC

(***************************************************************************)
(* Characters and strings                                                  *)
(***************************************************************************)
Ch(s, i) == SubSeq(s, i, i)

\* The element of a set of one element.  Only({ F(arg) : arg \in {e} }) is F
\* applied to the value of e: the argument is evaluated once, before the body
\* of F, as the arguments of a JavaScript call are.
Only(S) == CHOOSE r \in S : TRUE

UpperLetters == "ABCDEFGHIJKLMNOPQRSTUVWXYZ"
LowerLetters == "abcdefghijklmnopqrstuvwxyz"
Digits == "0123456789"

CharSet(s) == { Ch(s, i) : i \in 1..Len(s) }

UpperSet == CharSet(UpperLetters)
DigitSet == CharSet(Digits)
\* \w of a JavaScript regular expression
WordChars == CharSet(UpperLetters) \cup CharSet(LowerLetters) \cup DigitSet \cup {"_"}
\* \s of a JavaScript regular expression (the characters the inputs use)
SpaceChars == {" ", "\t", "\n", "\r"}

ToLowerCh(c) ==
  IF c \in UpperSet
    THEN Ch(LowerLetters, CHOOSE i \in 1..Len(UpperLetters) : Ch(UpperLetters, i) = c)
    ELSE c

\* The operators that go through a whole text split it in halves, which
\* keeps the depth of the recursion logarithmic in its length.
FirstHalf(s) == SubSeq(s, 1, Len(s) \div 2)
SecondHalf(s) == SubSeq(s, Len(s) \div 2 + 1, Len(s))

RECURSIVE ToLowerCase(_)
ToLowerCase(s) ==
  IF s = "" THEN ""
  ELSE IF Len(s) = 1 THEN ToLowerCh(s)
  ELSE ToLowerCase(FirstHalf(s)) \o ToLowerCase(SecondHalf(s))

RECURSIVE TrimStart(_)
TrimStart(s) == IF s # "" /\ Head(s) \in SpaceChars THEN TrimStart(Tail(s)) ELSE s

RECURSIVE TrimEnd(_)
TrimEnd(s) ==
  IF s # "" /\ Ch(s, Len(s)) \in SpaceChars THEN TrimEnd(SubSeq(s, 1, Len(s) - 1)) ELSE s

Trim(s) == TrimEnd(TrimStart(s))

\* String.prototype.includes
Includes(s, sub) ==
  \E i \in 1..(Len(s) - Len(sub) + 1) : SubSeq(s, i, i + Len(sub) - 1) = sub

\* String.prototype.slice(0, n)
Slice0(s, n) == SubSeq(s, 1, IF Len(s) < n THEN Len(s) ELSE n)

\* s.replace(/\s+/g, ' ')
RECURSIVE CollapseSpaces(_)
CollapseSpaces(s) ==
  IF s = "" THEN ""
  ELSE IF Head(s) \in SpaceChars
    THEN " " \o CollapseSpaces(TrimStart(s))
    ELSE Head(s) \o CollapseSpaces(Tail(s))

\* s.replace(/[^...]/g, ''): keeps the characters of the set keep
RECURSIVE KeepChars(_, _)
KeepChars(s, keep) ==
  IF s = "" THEN ""
  ELSE IF Len(s) = 1 THEN (IF s \in keep THEN s ELSE "")
  ELSE KeepChars(FirstHalf(s), keep) \o KeepChars(SecondHalf(s), keep)

\* s.replace(/[...]/g, ''): removes the characters of the set drop
RECURSIVE DropChars(_, _)
DropChars(s, drop) ==
  IF s = "" THEN ""
  ELSE IF Len(s) = 1 THEN (IF s \in drop THEN "" ELSE s)
  ELSE DropChars(FirstHalf(s), drop) \o DropChars(SecondHalf(s), drop)

(***************************************************************************)
(* keywordExtractor.ts: constants and pure helpers                         *)
(***************************************************************************)
CACHE_EXPIRY_MS == 3600000

createCacheKey(jobDescription) ==
  LET prefix == CollapseSpaces(Slice0(Trim(jobDescription), 50))
  IN  prefix \o "_" \o ToString(Len(jobDescription))

isApiValidationJob(jobDescription) ==
  LET cleaned == ToLowerCase(Trim(jobDescription))
  IN  /\ Len(cleaned) < 50
      /\ \/ Includes(cleaned, "software engineer")
         \/ Includes(cleaned, "react")
         \/ Includes(cleaned, "javascript")

\* jobDescription.replace(/[^\w\s,.;:'"!?()-]/g, '').trim()
CleanKeep == WordChars \cup SpaceChars \cup CharSet(",.;:'\"!?()-")
cleanJobDescription(jobDescription) == Trim(KeepChars(jobDescription, CleanKeep))

(***************************************************************************)
(* Regular expressions new RegExp(`\\b${term}\\b`, 'i') over the terms of  *)
(* the two dictionaries.  A pattern is text with \c for a literal c; a     *)
(* bare + is a quantifier, and a quantifier after a quantifier makes the   *)
(* RegExp constructor throw SyntaxError ("nothing to repeat").             *)
(***************************************************************************)
RECURSIVE RegexUnescape(_)
RegexUnescape(p) ==
  IF p = "" THEN ""
  ELSE IF Head(p) = "\\" /\ Len(p) >= 2 THEN Ch(p, 2) \o RegexUnescape(SubSeq(p, 3, Len(p)))
  ELSE Head(p) \o RegexUnescape(Tail(p))

\* position i of pattern p is an unescaped +
BarePlus(p, i) ==
  /\ i >= 1 /\ i <= Len(p) /\ Ch(p, i) = "+"
  /\ LET RECURSIVE Slashes(_)
         Slashes(k) == IF k >= 1 /\ Ch(p, k) = "\\" THEN 1 + Slashes(k - 1) ELSE 0
     IN  Slashes(i - 1) % 2 = 0

\* the RegExp constructor accepts the pattern
RegexValid(p) == \A i \in 1..Len(p) : ~(BarePlus(p, i) /\ BarePlus(p, i - 1))

IsWordAt(text, i) == i >= 1 /\ i <= Len(text) /\ Ch(text, i) \in WordChars

\* \b between positions i and i + 1 of text
WordBoundary(text, i) == IsWordAt(text, i) # IsWordAt(text, i + 1)

\* new RegExp(`\\b${pattern}\\b`, 'i').test(text), for a pattern without quantifiers
RegexTestWord(pattern, text) ==
  LET matches(lit, low) ==
        \E i \in 1..(Len(low) - Len(lit) + 1) :
          /\ SubSeq(low, i, i + Len(lit) - 1) = lit
          /\ WordBoundary(low, i - 1)
          /\ WordBoundary(low, i + Len(lit) - 1)
  IN  Only({ matches(arg, arg2) : arg \in {ToLowerCase(RegexUnescape(pattern))}, arg2 \in {ToLowerCase(text)} })

(***************************************************************************)
(* validateAndEnrichKeywords                                               *)
(***************************************************************************)
\* importantTerms: << regular-expression source, canonical spelling >>
importantTerms ==
  << <<"C\\+\\+", "C++">>, <<"C#", "C#">>, <<"Python", "Python">>, <<"Java", "Java">>,
     <<"Go", "Go">>, <<"JavaScript", "JavaScript">>, <<"TypeScript", "TypeScript">>,
     <<"Node\\.js", "Node.js">>, <<"SQL", "SQL">>,
     <<"SKLearn", "SKLearn">>, <<"XGBoost", "XGBoost">>, <<"PyTorch", "PyTorch">>,
     <<"Tensorflow", "Tensorflow">>, <<"React", "React">>, <<"Angular", "Angular">>,
     <<"Kubernetes", "Kubernetes">>, <<"K8s", "K8s">>, <<"Docker", "Docker">>,
     <<"CI\\/CD", "CI/CD">>, <<"Jenkins", "Jenkins">>, <<"GitLab", "GitLab">>,
     <<"GitHub", "GitHub">>, <<"GitHub Actions", "GitHub Actions">>,
     <<"ML\\/AI", "ML/AI">>, <<"Machine Learning", "Machine Learning">>,
     <<"Artificial Intelligence", "Artificial Intelligence">>, <<"E2E", "E2E">>,
     <<"APIs", "APIs">>, <<"Cloud", "Cloud">>, <<"Snowflake", "Snowflake">> >>

SeqContains(seq, e) == \E i \in 1..Len(seq) : seq[i] = e

LowerSet(seq) == { ToLowerCase(seq[i]) : i \in 1..Len(seq) }

\* a parsed JSON element is [type, text]; type is "string", "number" or "other"
validKeywords(keywords) ==
  LET strs == [i \in 1..Len(keywords) |-> Trim(keywords[i].text)]
      ok(i) == keywords[i].type \in {"string", "number"} /\ Len(strs[i]) > 0
      RECURSIVE Pick(_)
      Pick(i) == IF i > Len(keywords) THEN <<>>
                 ELSE (IF ok(i) THEN <<strs[i]>> ELSE <<>>) \o Pick(i + 1)
  IN  Pick(1)

\* variant: only the raw response is searched for the terms
missingFromTableResponseOnly(keywordSet, rawResponse, jobDescription) ==
  LET found(i) ==
        /\ ToLowerCase(importantTerms[i][2]) \notin keywordSet
        /\ RegexTestWord(importantTerms[i][1], rawResponse)
      RECURSIVE Pass(_)
      Pass(i) == IF i > Len(importantTerms) THEN <<>>
                 ELSE (IF found(i) THEN <<importantTerms[i][2]>> ELSE <<>>) \o Pass(i + 1)
  IN  Pass(1)

\* the importantTerms.forEach pass
missingFromTable(keywordSet, rawResponse, jobDescription) ==
  LET found(i) ==
        /\ ToLowerCase(importantTerms[i][2]) \notin keywordSet
        /\ \/ Includes(jobDescription, importantTerms[i][2])
           \/ RegexTestWord(importantTerms[i][1], jobDescription)
           \/ RegexTestWord(importantTerms[i][1], rawResponse)
      RECURSIVE Pass(_)
      Pass(i) == IF i > Len(importantTerms) THEN <<>>
                 ELSE (IF found(i) THEN <<importantTerms[i][2]>> ELSE <<>>) \o Pass(i + 1)
  IN  Pass(1)

\* the three direct text search fallbacks, in order
missingTerms(keywordSet, rawResponse, jobDescription) ==
  LET addCpp(m) ==
        IF /\ "c++" \notin keywordSet /\ ~SeqContains(m, "C++")
           /\ (Includes(jobDescription, "C++") \/ Includes(jobDescription, "c++"))
        THEN Append(m, "C++") ELSE m
      addPython(m) ==
        IF /\ "python" \notin keywordSet /\ ~SeqContains(m, "Python")
           /\ Includes(ToLowerCase(jobDescription), "python")
        THEN Append(m, "Python") ELSE m
      addJava(m) ==
        IF /\ "java" \notin keywordSet /\ ~SeqContains(m, "Java")
           /\ Includes(ToLowerCase(jobDescription), "java ")
        THEN Append(m, "Java") ELSE m
  IN  Only({ addJava(arg) : arg \in {Only({ addPython(arg) : arg \in {Only({ addCpp(arg) : arg \in {missingFromTable(keywordSet, rawResponse, jobDescription)} })} })} })

\* variant: the filter that removes duplicates is left out
uniqueKeywordsKeepAll(list, seen) == list

\* enrichedKeywords.filter(...) with the seen set: first occurrence wins
RECURSIVE uniqueKeywords(_, _)
uniqueKeywords(list, seen) ==
  IF list = <<>> THEN <<>>
  ELSE LET lowerKey == ToLowerCase(Head(list))
       IN  IF lowerKey \in seen
             THEN uniqueKeywords(Tail(list), seen)
             ELSE <<Head(list)>> \o uniqueKeywords(Tail(list), seen \cup {lowerKey})

validateAndEnrichKeywords(keywords, rawResponse, jobDescription) ==
  LET missing(valid, keywordSet) == missingTerms(keywordSet, rawResponse, jobDescription)
      enriched(valid) == valid \o Only({ missing(arg, arg2) : arg \in {valid}, arg2 \in {LowerSet(valid)} })
      unique(enrichedKeywords) == uniqueKeywords(enrichedKeywords, {})
  IN  Only({ unique(arg) : arg \in {Only({ enriched(arg) : arg \in {validKeywords(keywords)} })} })


(***************************************************************************)
(* JSON.parse, on the JSON the responses of the model use: an array of     *)
(* string literals (without escapes), integers and true/false/null, or one *)
(* such scalar.  Any other text makes JSON.parse throw.                    *)
(***************************************************************************)
\* first position >= i of s whose character satisfies in(c), or Len(s) + 1
RECURSIVE SkipWs(_, _)
SkipWs(s, i) == IF i <= Len(s) /\ Ch(s, i) \in SpaceChars THEN SkipWs(s, i + 1) ELSE i

RECURSIVE IndexFrom(_, _, _)
IndexFrom(s, c, i) ==
  IF i > Len(s) THEN 0 ELSE IF Ch(s, i) = c THEN i ELSE IndexFrom(s, c, i + 1)

RECURSIVE DigitsEnd(_, _)
DigitsEnd(s, i) == IF i <= Len(s) /\ Ch(s, i) \in DigitSet THEN DigitsEnd(s, i + 1) ELSE i

StartsWithAt(s, i, w) == i + Len(w) - 1 <= Len(s) /\ SubSeq(s, i, i + Len(w) - 1) = w

NoElem == [ok |-> FALSE, type |-> "other", text |-> "", next |-> 0]

\* one JSON scalar starting at position i of s
JsonScalar(s, i) ==
  IF i > Len(s) THEN NoElem
  ELSE IF Ch(s, i) = "\"" THEN
    LET k == IndexFrom(s, "\"", i + 1)
        body == SubSeq(s, i + 1, k - 1)
    IN  IF k = 0 \/ (\E j \in 1..Len(body) : Ch(body, j) \in {"\n", "\t", "\r", "\\"})
          THEN NoElem
          ELSE [ok |-> TRUE, type |-> "string", text |-> body, next |-> k + 1]
  ELSE IF Ch(s, i) \in DigitSet \/ (Ch(s, i) = "-" /\ IsWordAt(s, i + 1) /\ Ch(s, i + 1) \in DigitSet) THEN
    LET d == IF Ch(s, i) = "-" THEN i + 1 ELSE i
        e == DigitsEnd(s, d)
    IN  IF (Ch(s, d) = "0" /\ e > d + 1) \/ (e <= Len(s) /\ Ch(s, e) \in {".", "e", "E"})
          THEN NoElem
          ELSE [ok |-> TRUE, type |-> "number", text |-> SubSeq(s, i, e - 1), next |-> e]
  ELSE IF StartsWithAt(s, i, "true") THEN [ok |-> TRUE, type |-> "other", text |-> "true", next |-> i + 4]
  ELSE IF StartsWithAt(s, i, "false") THEN [ok |-> TRUE, type |-> "other", text |-> "false", next |-> i + 5]
  ELSE IF StartsWithAt(s, i, "null") THEN [ok |-> TRUE, type |-> "other", text |-> "null", next |-> i + 4]
  ELSE NoElem

\* the elements between the brackets of an array: [ok, items]
RECURSIVE JsonElements(_, _, _)
JsonElements(inner, i, acc) ==
  LET rest(from, items) == JsonElements(inner, from, items)
      afterElement(el, after) ==
        IF ~el.ok THEN [ok |-> FALSE, items |-> <<>>]
        ELSE IF after > Len(inner)
          THEN [ok |-> TRUE, items |-> Append(acc, [type |-> el.type, text |-> el.text])]
        ELSE IF Ch(inner, after) = ","
          THEN Only({ rest(arg, arg2) : arg \in {after + 1}, arg2 \in {Append(acc, [type |-> el.type, text |-> el.text])} })
        ELSE [ok |-> FALSE, items |-> <<>>]
      element(el) == Only({ afterElement(arg, arg2) : arg \in {el}, arg2 \in {SkipWs(inner, el.next)} })
  IN  Only({ element(arg) : arg \in {JsonScalar(inner, SkipWs(inner, i))} })

\* JSON.parse(text): ok = it did not throw; isArray = Array.isArray(value)
JsonParse(text) ==
  LET array(r) == [ok |-> r.ok, isArray |-> r.ok, items |-> r.items]
      scalar(t, sc) == [ok |-> sc.ok /\ sc.next = Len(t) + 1, isArray |-> FALSE, items |-> <<>>]
      elements(inner) ==
        IF SkipWs(inner, 1) > Len(inner)
          THEN [ok |-> TRUE, isArray |-> TRUE, items |-> <<>>]
          ELSE Only({ array(arg) : arg \in {JsonElements(inner, 1, <<>>)} })
      value(t) ==
        IF Len(t) >= 2 /\ Ch(t, 1) = "[" /\ Ch(t, Len(t)) = "]"
          THEN Only({ elements(arg) : arg \in {SubSeq(t, 2, Len(t) - 1)} })
          ELSE Only({ scalar(arg, arg2) : arg \in {t}, arg2 \in {JsonScalar(t, 1)} })
  IN  Only({ value(arg) : arg \in {Trim(text)} })

(***************************************************************************)
(* extractKeywordsWithPplx: the parsing approaches, tried in order         *)
(***************************************************************************)
\* The grave accent of a code fence is written ~ here: a TLA+ string cannot
\* hold the character, and no input of the model uses ~ for anything else.
Backtick == "~"
Fence == Backtick \o Backtick \o Backtick

\* result.replace(/(fence)json|(fence)/g, '')
RECURSIVE RemoveFences(_)
RemoveFences(s) ==
  IF s = "" THEN ""
  ELSE IF StartsWithAt(s, 1, Fence \o "json") THEN RemoveFences(SubSeq(s, 8, Len(s)))
  ELSE IF StartsWithAt(s, 1, Fence) THEN RemoveFences(SubSeq(s, 4, Len(s)))
  ELSE Head(s) \o RemoveFences(Tail(s))

\* result.match(/\[([\s\S]*?)\]/): the matched text, "" when there is no match
bracketMatch(result) ==
  LET a == IndexFrom(result, "[", 1)
      b == IF a = 0 THEN 0 ELSE IndexFrom(result, "]", a + 1)
  IN  IF b = 0 THEN "" ELSE SubSeq(result, a, b)

\* s.split(',')
RECURSIVE SplitComma(_)
SplitComma(s) ==
  LET rest(t) == SplitComma(t)
      at(k) == IF k = 0 THEN <<s>>
               ELSE <<SubSeq(s, 1, k - 1)>> \o Only({ rest(arg) : arg \in {SubSeq(s, k + 1, Len(s))} })
  IN  Only({ at(arg) : arg \in {IndexFrom(s, ",", 1)} })

AsStrings(list) == [i \in 1..Len(list) |-> [type |-> "string", text |-> list[i]]]

RECURSIVE TrimNonEmpty(_)
TrimNonEmpty(list) ==
  IF list = <<>> THEN <<>>
  ELSE (IF Trim(Head(list)) # "" THEN <<Trim(Head(list))>> ELSE <<>>) \o TrimNonEmpty(Tail(list))

\* the comma splitting approach: the keywordCandidates
keywordCandidates(result) ==
  LET split(s) == SplitComma(s)
      trimmed(list) == TrimNonEmpty(list)
  IN  Only({ trimmed(arg) : arg \in {Only({ split(arg) : arg \in {DropChars(result, {"[", "]", "\"", "'", Backtick})} })} })

\* result.match(/"([^"]*)"|'([^']*)'/g), each match without its quotes
RECURSIVE quotedPhrases(_, _)
quotedPhrases(result, i) ==
  IF i > Len(result) THEN <<>>
  ELSE LET c == Ch(result, i)
           k == IF c \in {"\"", "'"} THEN IndexFrom(result, c, i + 1) ELSE 0
       IN  IF k = 0 THEN quotedPhrases(result, i + 1)
           ELSE <<DropChars(SubSeq(result, i, k), {"\"", "'"})>> \o quotedPhrases(result, k + 1)

technicalTerms ==
  << "Python", "C++", "Java", "Go", "JavaScript", "TypeScript",
     "Kubernetes", "K8s", "Docker", "CI/CD", "Jenkins", "GitLab", "GitHub Actions",
     "SKLearn", "XGBoost", "PyTorch", "Tensorflow", "Machine Learning", "ML/AI",
     "E2E", "APIs", "Cloud", "Data", "Infrastructure", "Snowflake" >>

\* term.replace(/\//g, '\\/')
RECURSIVE EscapeSlashes(_)
EscapeSlashes(t) ==
  IF t = "" THEN ""
  ELSE (IF Head(t) = "/" THEN "\\/" ELSE Head(t)) \o EscapeSlashes(Tail(t))

\* the loop over technicalTerms: [threw, matches]; new RegExp throws on the
\* first term whose pattern is not a regular expression
RECURSIVE jobMatches(_, _, _)
jobMatches(jobDescription, i, acc) ==
  IF i > Len(technicalTerms) THEN [threw |-> FALSE, matches |-> acc]
  ELSE LET pattern == EscapeSlashes(technicalTerms[i])
       IN  IF ~RegexValid(pattern) THEN [threw |-> TRUE, matches |-> acc]
           ELSE jobMatches(jobDescription, i + 1,
                           IF RegexTestWord(pattern, jobDescription)
                             THEN Append(acc, technicalTerms[i]) ELSE acc)

\* The approaches that parse the response, tried in order: stage is the
\* approach that accepted (0 when none did), items is what it parsed.
\* Last resort before the manual fallback: words or phrases in quotes
quotedParse(result) ==
  Only({ IF Len(quoted) > 0
           THEN [stage |-> 4, items |-> AsStrings(TrimNonEmpty(quoted))]
           ELSE [stage |-> 0, items |-> <<>>]
         : quoted \in {quotedPhrases(result, 1)} })

\* Third try: split by commas
commaParse(result) ==
  Only({ IF Includes(result, ",") /\ Len(cands) > 0
           THEN [stage |-> 3, items |-> AsStrings(cands)]
           ELSE quotedParse(result)
         : cands \in {keywordCandidates(result)} })

\* Second try: JSON.parse of the text between the first [ and the next ]
regexParse(result) ==
  Only({ IF arrayText # "" /\ keywords.ok /\ keywords.isArray
           THEN [stage |-> 2, items |-> keywords.items]
           ELSE commaParse(result)
         : arrayText \in {bracketMatch(result)}, keywords \in {JsonParse(bracketMatch(result))} })

\* First try: JSON.parse of the response without its code fences
directParse(result) ==
  Only({ IF parsed.ok /\ parsed.isArray
           THEN [stage |-> 1, items |-> parsed.items]
           ELSE regexParse(result)
         : parsed \in {JsonParse(Trim(RemoveFences(result)))} })

\* The manual fallback: stage 6 is the outer catch block
manualFallback(jobDescription) ==
  Only({ IF last.threw
           THEN [stage |-> 6, store |-> FALSE, keywords |-> <<>>]
         ELSE IF Len(last.matches) > 0
           THEN [stage |-> 5, store |-> TRUE, keywords |-> last.matches]
         ELSE [stage |-> 5, store |-> FALSE, keywords |-> <<>>]
         : last \in {jobMatches(jobDescription, 1, <<>>)} })

\* The value returned after a non-empty response: stage is the approach that
\* returned, store tells whether storeResultInCache was called on keywords.
parseResponse(result, jobDescription) ==
  Only({ IF accepted.stage # 0
           THEN [stage |-> accepted.stage, store |-> TRUE,
                 keywords |-> validateAndEnrichKeywords(accepted.items, result, jobDescription)]
           ELSE manualFallback(jobDescription)
         : accepted \in {directParse(result)} })

(***************************************************************************)
(* KeywordMatchVisualizer.tsx: the local keyword extraction                *)
(***************************************************************************)
\* position i of s is inside a match of /<[^>]*>/g: a < at or before it with
\* no > in between, and a > at or after it
InTag(s, i) ==
  /\ \E j \in 1..i : Ch(s, j) = "<" /\ \A k \in j..(i - 1) : Ch(s, k) # ">"
  /\ \E k \in i..Len(s) : Ch(s, k) = ">"

\* text.replace(/<[^>]*>/g, '')
StripTags(s) ==
  LET RECURSIVE Outside(_, _)
      Outside(lo, hi) ==
        IF lo > hi THEN ""
        ELSE IF lo = hi THEN (IF InTag(s, lo) THEN "" ELSE Ch(s, lo))
        ELSE Outside(lo, (lo + hi) \div 2) \o Outside((lo + hi) \div 2 + 1, hi)
  IN  Outside(1, Len(s))

RECURSIVE WordLen(_)
WordLen(s) == IF s = "" \/ Head(s) \in SpaceChars THEN 0 ELSE 1 + WordLen(Tail(s))

\* s.split(/\s+/), without the empty strings that split gives at the two ends
\* of a text with outer white space (the length filter drops them)
RECURSIVE Words(_)
Words(s) ==
  LET t == TrimStart(s)
  IN  IF t = "" THEN << >>
      ELSE << SubSeq(t, 1, WordLen(t)) >> \o Words(SubSeq(t, WordLen(t) + 1, Len(t)))

commonWords ==
  { "the", "and", "to", "of", "a", "in", "for", "is", "on", "that", "by",
    "this", "with", "i", "you", "it", "not", "or", "be", "are", "from", "at",
    "as", "your", "have", "more", "an", "was", "we", "will", "can", "all", "has" }

MinWordLength == 3
MaxLocalKeywords == 20

\* Array.from(new Set(list)): the first occurrence of each element, in order
RECURSIVE FirstOccurrences(_, _)
FirstOccurrences(list, seen) ==
  IF list = << >> THEN << >>
  ELSE IF Head(list) \in seen THEN FirstOccurrences(Tail(list), seen)
  ELSE << Head(list) >> \o FirstOccurrences(Tail(list), seen \cup {Head(list)})

extractKeywordsLocally(text) ==
  LET plainText == StripTags(text)
      words == Words(ToLowerCase(plainText))
      stripped == [i \in 1..Len(words) |-> KeepChars(words[i], WordChars)]
      kept == SelectSeq(stripped, LAMBDA w : Len(w) > MinWordLength /\ w \notin commonWords)
      uniqueWords == FirstOccurrences(kept, {})
  IN  SubSeq(uniqueWords, 1,
             IF Len(uniqueWords) < MaxLocalKeywords THEN Len(uniqueWords) ELSE MaxLocalKeywords)

\* list.filter(keyword => !removedKeywords.has(keyword))
FilterRemoved(list, removed) == SelectSeq(list, LAMBDA k : k \notin removed)

(***************************************************************************)
(* resumeFormatter.ts: fixResumeFormatting, its pure steps                 *)
(***************************************************************************)
\* the marker of processed content
FormattedMarker == "___FORMATTED___"

MAX_CONTENT_LENGTH == 6000

\* The bullet character U+2022 is written @ here and the bullet-like
\* characters of the class [U+25CF U+25CB ...] are written % : a TLA+ string
\* holds ASCII only, and no text of the model uses @ or % for anything else.
Bullet == "@"
BulletLike == {"%"}

\* String.prototype.endsWith
EndsWith(s, suffix) ==
  Len(s) >= Len(suffix) /\ SubSeq(s, Len(s) - Len(suffix) + 1, Len(s)) = suffix

\* String.prototype.indexOf, counted from 1: 0 when sub does not occur in s
IndexOf(s, sub) ==
  Only({ IF hits = {} THEN 0 ELSE CHOOSE i \in hits : \A j \in hits : i <= j
         : hits \in {{ i \in 1..(Len(s) - Len(sub) + 1) : SubSeq(s, i, i + Len(sub) - 1) = sub }} })

\* s.replace(sub, rep) with a string pattern: the first occurrence only
ReplaceFirst(s, sub, rep) ==
  Only({ IF at = 0 THEN s
         ELSE SubSeq(s, 1, at - 1) \o rep \o SubSeq(s, at + Len(sub), Len(s))
         : at \in {IndexOf(s, sub)} })

\* s.replace(/sub/g, rep) for a pattern that is plain text: one occurrence
\* after the other, from the left
RECURSIVE ReplaceAll(_, _, _)
ReplaceAll(s, sub, rep) ==
  Only({ IF at = 0 THEN s
         ELSE SubSeq(s, 1, at - 1) \o rep \o ReplaceAll(SubSeq(s, at + Len(sub), Len(s)), sub, rep)
         : at \in {IndexOf(s, sub)} })

\* s ends inside a run of /[heads]\s*/
endsInRun(s, heads) ==
  Only({ t # "" /\ SubSeq(t, Len(t), Len(t)) \in heads : t \in {TrimEnd(s)} })

\* s.replace(/[heads]\s*/g, rep).  The text is halved rather than walked from
\* its head, so that a text of several thousand characters is within reach:
\* a run that starts in the left half takes the white space the right half
\* starts with.
RECURSIVE ReplaceRuns(_, _, _)
ReplaceRuns(s, heads, rep) ==
  IF \A i \in 1..Len(s) : SubSeq(s, i, i) \notin heads THEN s
  ELSE IF Len(s) = 1 THEN rep
  ELSE Only({ ReplaceRuns(left, heads, rep)
                \o ReplaceRuns(IF endsInRun(left, heads) THEN TrimStart(right) ELSE right, heads, rep)
              : left \in {FirstHalf(s)}, right \in {SecondHalf(s)} })

\* what follows position i of s, without the white space it starts with
AfterRun(s, i) == TrimStart(SubSeq(s, i + 1, Len(s)))

\* a match of /[-(bullet)]\s*[-(bullet)]\s*/ starts at position i of s
DoubleBulletAt(s, i) ==
  /\ SubSeq(s, i, i) \in {"-", Bullet}
  /\ Only({ second # "" /\ Head(second) \in {"-", Bullet} : second \in {AfterRun(s, i)} })

\* s.replace(/[-(bullet)]\s*[-(bullet)]\s*/g, '- '): one match after the
\* other, from the left
RECURSIVE MergeDoubleBullets(_)
MergeDoubleBullets(s) ==
  Only({ IF hits = {} THEN s
         ELSE Only({ SubSeq(s, 1, at - 1) \o "- " \o MergeDoubleBullets(AfterRun(AfterRun(s, at), 1))
                     : at \in {CHOOSE i \in hits : \A j \in hits : i <= j} })
         : hits \in {{ i \in 1..Len(s) : DoubleBulletAt(s, i) }} })

\* The four replacements after the API call.  The fourth, on the bullets at
\* the start of a line, finds no bullet left by the first two.
bulletsToHyphens(formattedContent) ==
  MergeDoubleBullets(ReplaceRuns(ReplaceRuns(formattedContent, {Bullet}, "- "), BulletLike, "- "))

\* the headings whose sections get a pass of their own
sectionHeadings ==
  { "## PROJECTS", "# PROJECTS", "## WORK EXPERIENCE", "## PROFESSIONAL EXPERIENCE", "## EDUCATION" }

hasSection(formattedContent) == \E h \in sectionHeadings : Includes(formattedContent, h)

\* .replace(/(fence)html/g, '').replace(/(fence)markdown/g, '').replace(/(fence)/g, '').trim()
removeCodeBlocks(formattedContent) ==
  Trim(ReplaceAll(ReplaceAll(ReplaceAll(formattedContent, Fence \o "html", ""),
                             Fence \o "markdown", ""), Fence, ""))

explanationMarkers ==
  << "### Changes Made:", "Changes Made:", "Here's the formatted", "I've formatted",
     "Here is the formatted" >>

\* one turn of the loop over explanationMarkers: index > 0, counted from 0
cutAt(formattedContent, marker) ==
  Only({ IF at > 1 THEN Trim(SubSeq(formattedContent, 1, at - 1)) ELSE formattedContent
         : at \in {IndexOf(formattedContent, marker)} })

RECURSIVE cutExplanations(_, _)
cutExplanations(formattedContent, i) ==
  IF i > Len(explanationMarkers) THEN formattedContent
  ELSE Only({ cutExplanations(cut, i + 1) : cut \in {cutAt(formattedContent, explanationMarkers[i])} })

\* formattedContent from the value callPplxApi returned up to the test for an
\* empty response; the responses of the model have no section heading, which
\* the three section passes need
cleanedResponse(content) == cutExplanations(removeCodeBlocks(bulletsToHyphens(content)), 1)

\* the content without a marker at its end, as fixResumeFormatting computes it
cleanContentOf(resumeContent) ==
  IF EndsWith(resumeContent, FormattedMarker)
    THEN ReplaceFirst(resumeContent, FormattedMarker, "")
    ELSE resumeContent

isHtml(cleanContent) == Includes(cleanContent, "<") /\ Includes(cleanContent, ">")

\* what the user prompt carries of the content
truncatedContent(cleanContent) ==
  IF Len(cleanContent) > MAX_CONTENT_LENGTH
    THEN SubSeq(cleanContent, 1, MAX_CONTENT_LENGTH) \o (IF isHtml(cleanContent) THEN " ..." ELSE "...")
    ELSE cleanContent

\* cleanContent.substring(MAX_CONTENT_LENGTH)
remainderOf(cleanContent) == SubSeq(cleanContent, MAX_CONTENT_LENGTH + 1, Len(cleanContent))

\* finalContent: the merge with the remainder of the original, then the final
\* cleanup, whose third replacement finds no bullet left by the first
finalContent(formattedContent, cleanContent) ==
  Only({ ReplaceRuns(ReplaceRuns(merged, {Bullet}, "- "), BulletLike, "- ")
         : merged \in {IF Len(cleanContent) > MAX_CONTENT_LENGTH /\ Len(formattedContent) > 0
                         THEN formattedContent \o remainderOf(cleanContent)
                         ELSE formattedContent} })

\* the value fixResumeFormatting resolves to for a content that is not blank,
\* when callPplxApi returned or threw ret
formattedResult(resumeContent, ret) ==
  Only({ IF ret.kind = "error" THEN cleanContent \o FormattedMarker
         ELSE Only({ IF Trim(formattedContent) = ""
                       THEN cleanContent \o FormattedMarker
                       ELSE finalContent(formattedContent, cleanContent) \o FormattedMarker
                     : formattedContent \in {cleanedResponse(ret.content)} })
         : cleanContent \in {cleanContentOf(resumeContent)} })

(***************************************************************************)
(* Bounds of the model and the inputs the calls are drawn from             *)
(***************************************************************************)
NumCallers == 2
MaxCalls == 3
MaxRemoved == 1

Callers == 1..NumCallers

\* job descriptions: blank, validation-like, too short once cleaned, ordinary
JobDescriptions ==
  { "  ",
    "Software Engineer React",
    "C++ & C# dev",
    "Experience with Python and C++ required" }

\* message contents the remote model may answer with
Responses ==
  { "",
    "[\"Python\", \"C++\"]",
    "Sure! Here's the list: [\"React\", \"react\", \" \"]",
    "no idea" }

\* the query of validateApiOnce
ProbeJob == "Software Engineer React"

\* job descriptions the user enters in the page: shorter than getKeywords
\* accepts, with markup and a repeated word, with more words than the cap
EnteredJobs ==
  { "Python developer",
    "<p>We need the Senior Python developer with React and Python</p>",
    "Java Rust Ruby Perl Bash Dart Lisp Node Vue3 Html Sass Less Yaml Json Toml Curl Grep Make Helm Flux Nats Kong" }

\* job descriptions for the parser: with two terms of the dictionary that the
\* direct text search knows too, with terms it does not know, with none
ParseJobs ==
  { "Experience with Python and C++ required",
    "Senior role: Docker, SQL and Go on the cloud",
    "Plumber wanted for night shifts" }

\* message contents for the parser: an array after a sentence, an array, an
\* array with a repeated keyword, an empty array
ParseResponses ==
  { "Sure! Here's the list: [\"Python\"]",
    "[\"Docker\"]",
    "[\"AWS\", \"python\", \"Python\"]",
    "[]" }

AllJobs == JobDescriptions \cup EnteredJobs \cup {ProbeJob} \cup ParseJobs

\* The pure functions of the calls, tabulated over the inputs of the model
cacheKeyOf == [jd \in AllJobs \cup {""} |-> createCacheKey(jd)]
isBlank == [jd \in AllJobs |-> Trim(jd) = ""]
isValidationJob == [jd \in AllJobs |-> isApiValidationJob(jd)]
cleanLength == [jd \in AllJobs |-> Len(cleanJobDescription(jd))]
trimLength == [jd \in AllJobs |-> Len(Trim(jd))]
localKeywords == [jd \in AllJobs |-> extractKeywordsLocally(jd)]
parsedResponse ==
  [c \in Responses \cup ParseResponses, jd \in AllJobs |->
     IF Trim(c) = "" THEN [stage |-> 0, store |-> FALSE, keywords |-> <<>>]
     ELSE parseResponse(c, jd)]

CacheKeys == { cacheKeyOf[jd] : jd \in AllJobs }

\* n copies of a text, by doubling
RECURSIVE Repeat(_, _)
Repeat(text, n) ==
  IF n = 0 THEN ""
  ELSE Only({ half \o half \o (IF n % 2 = 1 THEN text ELSE "") : half \in {Repeat(text, n \div 2)} })

\* a text of exactly MAX_CONTENT_LENGTH characters
FullText == Repeat("Built APIs. ", MAX_CONTENT_LENGTH \div 12)

\* resume contents: blank, short, marked as processed, the marker alone, the
\* marker inside and at the end, longer than the cap without and with a
\* bullet beyond the cap
ResumeContents ==
  { "  ",
    "Jane Doe\n@ Built APIs",
    "Jane Doe" \o FormattedMarker,
    FormattedMarker,
    "Tags: " \o FormattedMarker \o " marks done" \o FormattedMarker,
    FullText \o "\nLed a team",
    FullText \o "\n@Led a team" }

\* message contents the remote model may answer a formatting request with:
\* empty, markup, fenced markup, a fence alone, markup and an explanation, an
\* explanation and markup, markup that ends with the marker of processed content
FormatResponses ==
  { "",
    "<p>Jane Doe</p>",
    Fence \o "html\n<p>Jane Doe</p>\n" \o Fence,
    Fence \o "\n" \o Fence,
    "# Jane Doe\n@ Built APIs\nChanges Made: bullets",
    "Here's the formatted resume:\n<p>Jane Doe</p>",
    "<p>Jane Doe</p>" \o FormattedMarker }

(***************************************************************************)
(* pplxApi.ts: callPplxApi                                                 *)
(***************************************************************************)
DefaultTimeoutMs == 60000
DefaultRetries == 2
RetryDelayMs == 2000

\* the options fixResumeFormatting passes
FormatTimeoutMs == 60000
FormatRetries == 2

\* the delay of the timer formatResumeContent sets
WrapperTimeoutMs == 180000

\* an optional numeric option: set = FALSE is undefined
Unset == [set |-> FALSE, val |-> 0]
Given(n) == [set |-> TRUE, val |-> n]

\* options.x || d
OrDefault(opt, d) == IF opt.set /\ opt.val # 0 THEN opt.val ELSE d

maxRetries(retries) == OrDefault(retries, DefaultRetries)
timeoutMs(timeout) == OrDefault(timeout, DefaultTimeoutMs)

\* values of the retries option a direct caller passes
RetriesOptions == { Unset, Given(0), Given(1), Given(3) }

(***************************************************************************)
(* keywordExtractor.ts: the poll loop of a duplicate request               *)
(***************************************************************************)
PollIntervalMs == 500
MaxPollAttempts == 10
MinCleanLength == 20

\* how long after it was sent a request is answered, when it is answered
\* before its timeout: at once, or just as a duplicate caller stops polling
Latencies == { 0, MaxPollAttempts * PollIntervalMs }

validationKeywords == << "Software Engineer", "React", "JavaScript" >>

(***************************************************************************)
(* State                                                                   *)
(***************************************************************************)
VARIABLES
  now,              \* Date.now(), in ms
  apiKey,           \* process.env.REACT_APP_PPLX_API_KEY is set
  apiValidated,     \* globalState.apiValidated
  pendingRequests,  \* globalState.pendingRequests
  keywordCache,     \* keywordCache: cache key -> entry
  procs,            \* the calls in progress, one record per caller
  calls,            \* number of calls started so far
  batch,            \* history: the callers of the current simultaneous batch
  batchOpen,        \* history: the batch can still be joined (same tick)
  batchFresh,       \* history: a fresh cache entry existed when the batch began
  firstInvoker,     \* history: first caller of the batch to invoke callPplxApi, or 0
  ui,               \* KeywordMatchVisualizer: globalValidationState and the component
  editor            \* ResumeEditor: the state of the component and its timer

vars == << now, apiKey, apiValidated, pendingRequests, keywordCache, procs, calls,
           batch, batchOpen, batchFresh, firstInvoker, ui, editor >>

\* the variables KeywordMatchVisualizer does not write itself: those of the
\* extractor and of the transport, and the editor
extractorVars == << now, apiKey, apiValidated, pendingRequests, keywordCache, procs, calls,
                    batch, batchOpen, batchFresh, firstInvoker, editor >>

NoEntry == [present |-> FALSE, keywords |-> <<>>, timestamp |-> 0]
NoReturn == [kind |-> "none", content |-> ""]

\* errors of one request: axios.isAxiosError(error) and error.code
TimeoutError == [axios |-> TRUE, code |-> "ECONNABORTED"]
HttpError == [axios |-> TRUE, code |-> "ERR_BAD_REQUEST"]
\* response.data.choices is undefined: reading choices[0] throws
MalformedError == [axios |-> FALSE, code |-> "TypeError"]
MissingKeyError == [axios |-> FALSE, code |-> "PPLX API key not found"]

IdleProc ==
  [ op |-> "none", pc |-> "idle", jd |-> "", cacheKey |-> "",
    attempts |-> 0, wake |-> 0,
    retries |-> Unset, timeout |-> Unset, retryCount |-> 0, attemptStart |-> 0,
    tReturn |-> NoReturn,
    settled |-> "none", result |-> <<>>, error |-> "",
    \* of fixResumeFormatting: its argument, the content of the user prompt,
    \* the text it resolves to
    resumeContent |-> "", sent |-> "", formatted |-> "",
    \* history of the call, read by the properties only
    via |-> "", response |-> "", invocations |-> 0, requests |-> 0, errors |-> <<>>, prevEnd |-> 0,
    gaveUp |-> FALSE, stored |-> FALSE, servedStale |-> FALSE ]

\* the slots of the calls the component makes: validateApiOnce, getKeywords
ProbeCaller == 1
MainCaller == 2
\* the slot of a getKeywords call that overlaps another: that of the probe,
\* which is over by then
OverlapCaller == 1

MinJobLength == 50

IdleRun == [pc |-> "idle", jd |-> "", useApiKeywords |-> TRUE, removedKeywords |-> {}]

InitUi ==
  [ mounted |-> FALSE,
    \* globalValidationState; validationPromise is none, pending, true or false
    isValidated |-> FALSE, isValidating |-> FALSE, validationPromise |-> "none",
    \* state and refs of the component
    useApiKeywords |-> TRUE, removedKeywords |-> {}, keywords |-> << >>, apiError |-> "",
    lastProcessedJob |-> "", processingJob |-> "",
    \* the getKeywords call in progress, with the values its closure captured
    run |-> IdleRun,
    \* a getKeywords call that began while run awaited its extraction
    overlap |-> IdleRun,
    \* history of the last getKeywords call, read by the properties only
    source |-> "none", probeTimedOut |-> FALSE, timedOut |-> FALSE,
    \* history: a probe of validateApiOnce has completed
    probed |-> FALSE,
    \* history: the job description of the last getKeywords call, and whether a
    \* dependency of getKeywords changed since, so that the effect calls it again
    current |-> "", rerun |-> FALSE ]

\* one formatResumeContent call: the value its closure captured, its timer,
\* and (history, read by the properties only) whether its timer fired
IdleFormatRun ==
  [pc |-> "idle", contentToFormat |-> "", timerSet |-> FALSE, timerDeadline |-> 0,
   timedOut |-> FALSE]

\* contentToFormat = "" is null; reported is the last argument of onChange
InitEditor ==
  [ isFormatting |-> FALSE, contentToFormat |-> "", displayContent |-> "", reported |-> "",
    \* the effect on [contentToFormat, onChange] is due
    effectPending |-> FALSE,
    \* the formatResumeContent calls in progress; the call of runs[p] awaits the
    \* fixResumeFormatting call of procs[p]
    runs |-> [p \in Callers |-> IdleFormatRun],
    \* history, read by the properties only: the fixResumeFormatting calls
    \* started since the last upload
    launches |-> 0 ]

Init ==
  /\ ui = InitUi
  /\ editor = InitEditor
  /\ now = 0
  /\ apiKey \in BOOLEAN
  /\ apiValidated = FALSE
  /\ pendingRequests = {}
  /\ keywordCache = [k \in CacheKeys |-> NoEntry]
  /\ procs = [p \in Callers |-> IdleProc]
  /\ calls = 0
  /\ batch = {}
  /\ batchOpen = FALSE
  /\ batchFresh = FALSE
  /\ firstInvoker = 0

\* cachedResult && (Date.now() - cachedResult.timestamp) < CACHE_EXPIRY_MS, at time t
Fresh(entry, t) == entry.present /\ (t - entry.timestamp) < CACHE_EXPIRY_MS

Running(r) == r.pc \notin {"idle", "done"}

\* no call is in progress
Quiescent == \A p \in Callers : ~Running(procs[p])

(***************************************************************************)
(* The code reads the clock only through differences: Date.now() minus a   *)
(* timestamp, and the delays of setTimeout and of the axios timeout.  When *)
(* the last call in progress finishes, the origin of the clock is moved to *)
(* that moment, and an entry that has expired, which can never be fresh    *)
(* again, gets the age of the expiry exactly.                              *)
(***************************************************************************)
Rebase(cache, t) ==
  [k \in CacheKeys |->
     IF ~cache[k].present THEN cache[k]
     ELSE IF Fresh(cache[k], t)
       THEN [cache[k] EXCEPT !.timestamp = @ - t]
       ELSE [cache[k] EXCEPT !.timestamp = 0 - CACHE_EXPIRY_MS]]

\* the clock and the cache after a step that leaves caller p with record r2
\* and the cache as cache
Settle(p, r2, cache) ==
  LET quiet == /\ ~Running(r2) /\ \A q \in Callers \ {p} : ~Running(procs[q])
               /\ \A q \in Callers : ~editor.runs[q].timerSet
  IN  /\ now' = IF quiet THEN 0 ELSE now
      /\ keywordCache' = IF quiet THEN Rebase(cache, now) ELSE cache

\* the promise of extractKeywordsWithPplx resolves to keywords
Resolve(r, via, keywords) ==
  [IdleProc EXCEPT !.op = r.op, !.pc = "done", !.jd = r.jd, !.cacheKey = r.cacheKey,
                   !.settled = "resolved", !.result = keywords, !.via = via,
                   !.error = IF r.tReturn.kind = "error" THEN r.tReturn.content ELSE "",
                   !.invocations = r.invocations, !.requests = r.requests,
                   !.gaveUp = r.gaveUp]

\* callPplxApi up to its first await: the credential check, then the first request
callPplxApiEnter(r, retries, t) ==
  IF ~apiKey
    THEN [r EXCEPT !.pc = "returned", !.retries = retries, !.retryCount = 0,
                   !.tReturn = [kind |-> "error", content |-> MissingKeyError.code],
                   !.invocations = @ + 1]
    ELSE [r EXCEPT !.pc = "attempt", !.retries = retries, !.retryCount = 0,
                   !.attemptStart = t, !.invocations = @ + 1, !.requests = @ + 1]

\* variant: the request is never marked as pending
fromCacheCheckUnmarked(r, t, cache) ==
  LET entry == cache[r.cacheKey]
  IN  IF Fresh(entry, t)
        THEN [proc |-> Resolve(r, "cache", entry.keywords), pending |-> pendingRequests]
      ELSE IF cleanLength[r.jd] < MinCleanLength
        THEN [proc |-> Resolve(r, "short", <<>>), pending |-> pendingRequests \ {r.cacheKey}]
      ELSE [proc |-> callPplxApiEnter(r, Unset, t), pending |-> pendingRequests]

\* extractKeywordsWithPplx from "Check cache first" up to the await of callPplxApi:
\* the new record of the call and the new pending set
fromCacheCheck(r, t, cache) ==
  LET entry == cache[r.cacheKey]
  IN  IF Fresh(entry, t)
        THEN [proc |-> [Resolve(r, "cache", entry.keywords) EXCEPT !.servedStale = ~Fresh(entry, t)],
              pending |-> pendingRequests]
      ELSE IF cleanLength[r.jd] < MinCleanLength
        \* add, return [] and the finally block, in one synchronous segment
        THEN [proc |-> Resolve(r, "short", <<>>),
              pending |-> (pendingRequests \cup {r.cacheKey}) \ {r.cacheKey}]
      ELSE [proc |-> callPplxApiEnter(r, Unset, t),
            pending |-> pendingRequests \cup {r.cacheKey}]

\* history of the batch when caller p starts a call with cache key key
BatchJoins(p, key) ==
  /\ batchOpen /\ batch # {} /\ p \notin batch
  /\ \A q \in batch : procs[q].cacheKey = key

BatchOver == \A q \in batch : ~Running(procs[q])

\* Caller p may start a call; callers are interchangeable, so a caller that
\* never called starts only after the callers before it
CanStart(p) ==
  /\ ~Running(procs[p])
  /\ calls < MaxCalls
  /\ \A q \in Callers : q < p => procs[q].pc # "idle"

StartBatch(p, key, r2) ==
  LET joins == BatchJoins(p, key)
      fresh == ~joins /\ BatchOver
  IN  /\ batch' = IF joins THEN batch \cup {p}
                  ELSE IF BatchOver THEN {p}
                  ELSE IF p \in batch THEN {}
                  ELSE batch
      /\ batchOpen' = IF joins \/ BatchOver THEN TRUE
                      ELSE IF p \in batch THEN FALSE
                      ELSE batchOpen
      /\ batchFresh' = IF fresh THEN Fresh(keywordCache[key], now) ELSE batchFresh
      /\ firstInvoker' = IF (fresh \/ firstInvoker = 0) /\ p \in batch' /\ r2.invocations > 0 THEN p
                         ELSE IF fresh \/ batch' = {} THEN 0
                         ELSE firstInvoker

\* extractKeywordsWithPplx(jd), up to its first await or its return
Extract(p, jd) ==
  LET key == cacheKeyOf[jd]
      r0 == [IdleProc EXCEPT !.op = "extract", !.jd = jd, !.cacheKey = key]
      go == fromCacheCheck(r0, now, keywordCache)
      early == isBlank[jd] \/ (isValidationJob[jd] /\ apiValidated)
      r2 == IF isBlank[jd] THEN Resolve(r0, "blank", <<>>)
            ELSE IF isValidationJob[jd] /\ apiValidated
              THEN Resolve(r0, "validation", validationKeywords)
            ELSE IF key \in pendingRequests
              THEN [r0 EXCEPT !.pc = "poll", !.attempts = 0, !.wake = now + PollIntervalMs]
            ELSE go.proc
  IN  /\ calls' = calls + 1
      \* the results of the batch before are forgotten when a new batch begins
      /\ procs' = [q \in Callers |->
                     IF q = p THEN r2
                     ELSE IF BatchOver /\ ~BatchJoins(p, key) /\ ~Running(procs[q]) THEN IdleProc
                     ELSE procs[q]]
      /\ pendingRequests' = IF early \/ key \in pendingRequests THEN pendingRequests ELSE go.pending
      /\ StartBatch(p, key, r2)
      /\ UNCHANGED << now, keywordCache, apiKey, apiValidated, editor >>

\* a caller other than the component calls extractKeywordsWithPplx(jd)
StartExtract(p, jd) ==
  /\ CanStart(p)
  /\ Extract(p, jd)
  /\ UNCHANGED ui

\* extractKeywordsWithPplx(jd) called while no other call is in progress
ExtractAlone(p, jd) ==
  /\ Quiescent
  /\ StartExtract(p, jd)

\* a direct call callPplxApi({..., retries}), up to its first await; the calls
\* of callPplxApi share no state, so they are made one at a time
StartDirect(p, retries) ==
  /\ CanStart(p)
  /\ Quiescent
  /\ calls' = calls + 1
  /\ procs' = [procs EXCEPT ![p] =
                 callPplxApiEnter([IdleProc EXCEPT !.op = "direct"], retries, now)]
  /\ UNCHANGED << now, keywordCache, apiKey, apiValidated, pendingRequests,
                  batch, batchOpen, batchFresh, firstInvoker, ui, editor >>

\* fixResumeFormatting(resumeContent) called at time t, up to its first await
\* or its return
fixResumeFormattingEnter(resumeContent, t) ==
  IF Trim(resumeContent) = ""
    THEN [IdleProc EXCEPT !.op = "format", !.pc = "done", !.settled = "resolved",
                          !.resumeContent = resumeContent, !.formatted = ""]
    ELSE callPplxApiEnter(
           [IdleProc EXCEPT !.op = "format", !.resumeContent = resumeContent,
                            !.sent = truncatedContent(cleanContentOf(resumeContent)),
                            !.timeout = Given(FormatTimeoutMs)],
           Given(FormatRetries), t)

\* a caller other than the editor calls fixResumeFormatting(resumeContent);
\* the calls share no state, so they are made one at a time
StartFormat(p, resumeContent) ==
  /\ CanStart(p)
  /\ Quiescent
  /\ calls' = calls + 1
  \* the results of the calls before are forgotten
  /\ procs' = [q \in Callers |->
                 IF q = p THEN fixResumeFormattingEnter(resumeContent, now) ELSE IdleProc]
  /\ UNCHANGED << now, keywordCache, apiKey, apiValidated, pendingRequests,
                  batch, batchOpen, batchFresh, firstInvoker, ui, editor >>

\* the continuation of formatResumeContent after its await is queued
EditorContinuationPending ==
  \E p \in Callers : editor.runs[p].pc = "awaitFormat" /\ procs[p].pc = "done"

\* a continuation of the component is queued: of the validation promise, of
\* getKeywords after the validation, of getKeywords after the extraction
UiContinuationPending ==
  \/ ui.validationPromise = "pending" /\ procs[ProbeCaller].pc = "done"
  \/ ui.run.pc = "awaitValidation" /\ ui.validationPromise \in {"true", "false"}
  \/ ui.run.pc = "awaitExtract" /\ procs[MainCaller].pc = "done"
  \/ ui.overlap.pc = "awaitExtract" /\ procs[OverlapCaller].pc = "done"

\* a continuation is queued as a microtask: it runs before any timer fires and
\* before any response is delivered
MicrotaskPending ==
  \/ \E p \in Callers : procs[p].pc = "returned"
  \/ UiContinuationPending
  \/ EditorContinuationPending

\* one turn of the poll loop: the 500 ms timer fired
PollTick(p) ==
  LET r == procs[p]
      n == r.attempts + 1
      entry == keywordCache[r.cacheKey]
      r1 == [r EXCEPT !.attempts = n, !.gaveUp = r.cacheKey \in pendingRequests]
      go == fromCacheCheck(r1, now, keywordCache)
      again == r.cacheKey \in pendingRequests /\ n < MaxPollAttempts
      r2 == IF again THEN [r EXCEPT !.attempts = n, !.wake = now + PollIntervalMs]
            ELSE IF entry.present
              THEN [Resolve(r1, "concurrent", entry.keywords) EXCEPT !.servedStale = ~Fresh(entry, now)]
            ELSE go.proc
  IN  /\ r.pc = "poll"
      /\ ~MicrotaskPending
      /\ now >= r.wake
      /\ procs' = [procs EXCEPT ![p] = r2]
      /\ pendingRequests' = IF again \/ entry.present THEN pendingRequests ELSE go.pending
      /\ batchOpen' = FALSE
      /\ firstInvoker' = IF firstInvoker = 0 /\ p \in batch /\ r2.invocations > 0 THEN p ELSE firstInvoker
      /\ Settle(p, r2, keywordCache)
      /\ UNCHANGED << apiKey, apiValidated, calls, batch, batchFresh, ui, editor >>

\* variant: every axios error counts as a timeout
isTimeoutErrorAnyAxios(error) == error.axios

\* axios.isAxiosError(error) && error.code === 'ECONNABORTED'
isTimeoutError(error) == error.axios /\ error.code = "ECONNABORTED"

\* variant: a timeout is retried however many requests were made
onRequestErrorUnbounded(r, error) ==
  LET r1 == [r EXCEPT !.errors = Append(@, error.code), !.prevEnd = now]
  IN  IF isTimeoutError(error)
        THEN [r1 EXCEPT !.pc = "retryWait", !.retryCount = @ + 1, !.wake = now + RetryDelayMs]
        ELSE [r1 EXCEPT !.pc = "returned", !.tReturn = [kind |-> "error", content |-> error.code]]

\* the catch block of callPplxApi for the error of one request
onRequestError(r, error) ==
  LET r1 == [r EXCEPT !.errors = Append(@, error.code), !.prevEnd = now]
  IN  IF isTimeoutError(error) /\ r.retryCount < maxRetries(r.retries)
        THEN [r1 EXCEPT !.pc = "retryWait", !.retryCount = @ + 1, !.wake = now + RetryDelayMs]
        ELSE [r1 EXCEPT !.pc = "returned", !.tReturn = [kind |-> "error", content |-> error.code]]

\* variant: storeResultInCache does not mark the API as validated
OutcomeLeavesFlag(r, proc, stores, keywords, pending) ==
  [ proc |-> proc,
    validated |-> apiValidated,
    cache |-> IF stores
                THEN [keywordCache EXCEPT ![r.cacheKey] =
                        [present |-> TRUE, keywords |-> keywords, timestamp |-> now]]
                ELSE keywordCache,
    pending |-> pending ]

\* the outcome of a finished call, as afterCall gives it, from its parts
Outcome(r, proc, stores, keywords, pending) ==
  [ proc |-> proc,
    validated |-> IF stores /\ isValidationJob[r.jd] THEN TRUE ELSE apiValidated,
    cache |-> IF stores
                THEN [keywordCache EXCEPT ![r.cacheKey] =
                        [present |-> TRUE, keywords |-> keywords, timestamp |-> now]]
                ELSE keywordCache,
    pending |-> pending ]

\* the record of the finished call; parsed is what the response parses to
AfterCallProc(r, parsed) ==
  IF r.tReturn.kind = "error" THEN Resolve(r, "error", <<>>)
  ELSE IF parsed.stage = 0 THEN Resolve(r, "emptyResponse", <<>>)
  ELSE IF parsed.store
    THEN [Resolve(r, "parsed", parsed.keywords) EXCEPT !.stored = TRUE,
                                                       !.response = r.tReturn.content]
  ELSE [Resolve(r, "parseFailed", parsed.keywords) EXCEPT !.response = r.tReturn.content]

\* variant: an empty response is stored too
AfterCallStoresAnyContent(r, parsed) == r.tReturn.kind = "content"

\* storeResultInCache is called
AfterCallStores(r, parsed) ==
  /\ r.tReturn.kind = "content"
  /\ parsed.stage # 0
  /\ parsed.store

\* the steps of afterCall, on the value parsed that the response parses to
afterCallOn(r, parsed) ==
  Outcome(r, AfterCallProc(r, parsed), AfterCallStores(r, parsed), parsed.keywords,
          pendingRequests \ {r.cacheKey})

\* variant: the error of callPplxApi is not caught
afterCallUncaughtOn(r, parsed) ==
  Outcome(r,
          IF r.tReturn.kind = "error"
            THEN [Resolve(r, "error", <<>>) EXCEPT !.settled = "rejected"]
            ELSE AfterCallProc(r, parsed),
          AfterCallStores(r, parsed), parsed.keywords, pendingRequests \ {r.cacheKey})

\* variant: the pending marker is removed on success only
afterCallNoFinallyOn(r, parsed) ==
  Outcome(r, AfterCallProc(r, parsed), AfterCallStores(r, parsed), parsed.keywords,
          IF r.tReturn.kind = "error" THEN pendingRequests ELSE pendingRequests \ {r.cacheKey})

\* variant: the cache entry is written before the keywords are known
afterCallCachesEmptyOn(r, parsed) ==
  Outcome(r, AfterCallProc(r, parsed), AfterCallStores(r, parsed), <<>>,
          pendingRequests \ {r.cacheKey})

\* variant: the error of callPplxApi is not caught
afterCallUncaught(r) == afterCallUncaughtOn(r, parsedResponse[r.tReturn.content, r.jd])

\* variant: the pending marker is removed on success only
afterCallNoFinally(r) == afterCallNoFinallyOn(r, parsedResponse[r.tReturn.content, r.jd])

\* variant: the cache entry is written before the keywords are known
afterCallCachesEmpty(r) == afterCallCachesEmptyOn(r, parsedResponse[r.tReturn.content, r.jd])

\* extractKeywordsWithPplx after the await of callPplxApi: the record of the
\* finished call, what it stores, and its finally block
afterCall(r) == afterCallOn(r, parsedResponse[r.tReturn.content, r.jd])

\* the promise of a direct callPplxApi call settles
directDone(r) ==
  [IdleProc EXCEPT !.op = "direct", !.pc = "done", !.retries = r.retries,
                   !.settled = IF r.tReturn.kind = "content" THEN "resolved" ELSE "rejected",
                   !.error = IF r.tReturn.kind = "error" THEN r.tReturn.content ELSE "",
                   !.invocations = r.invocations, !.requests = r.requests, !.errors = r.errors]

\* fixResumeFormatting after the await of callPplxApi: its promise resolves
formatDone(r) ==
  [IdleProc EXCEPT !.op = "format", !.pc = "done", !.settled = "resolved",
                   !.resumeContent = r.resumeContent, !.sent = r.sent,
                   !.formatted = formattedResult(r.resumeContent, r.tReturn),
                   !.retries = r.retries, !.timeout = r.timeout, !.tReturn = r.tReturn,
                   !.error = IF r.tReturn.kind = "error" THEN r.tReturn.content ELSE "",
                   !.invocations = r.invocations, !.requests = r.requests, !.errors = r.errors]

\* callPplxApi returned or threw (r.tReturn): its caller continues in the same
\* turn of the event loop
Continue(p, r) ==
  IF r.op = "format"
    THEN \E f \in {formatDone(r)} :
           /\ procs' = [procs EXCEPT ![p] = f]
           /\ Settle(p, f, keywordCache)
           /\ UNCHANGED << apiValidated, pendingRequests >>
  ELSE IF r.op = "extract"
    THEN \E a \in {afterCall(r)} :
           /\ procs' = [procs EXCEPT ![p] = a.proc]
           /\ apiValidated' = a.validated
           /\ Settle(p, a.proc, a.cache)
           /\ pendingRequests' = a.pending
    ELSE \E d \in {directDone(r)} :
           /\ procs' = [procs EXCEPT ![p] = d]
           /\ Settle(p, d, keywordCache)
           /\ UNCHANGED << apiValidated, pendingRequests >>

\* one step of callPplxApi after a request failed: wait and retry, or throw
AfterError(p, r2) ==
  IF r2.pc = "retryWait"
    THEN /\ procs' = [procs EXCEPT ![p] = r2]
         /\ UNCHANGED << now, apiValidated, keywordCache, pendingRequests >>
    ELSE Continue(p, r2)

\* the request is answered with a message content
TransportRespond(p, content) ==
  /\ procs[p].pc = "attempt"
  /\ ~MicrotaskPending
  /\ now - procs[p].attemptStart \in Latencies
  /\ Continue(p, [procs[p] EXCEPT !.tReturn = [kind |-> "content", content |-> content]])
  /\ batchOpen' = FALSE
  /\ UNCHANGED << apiKey, calls, batch, batchFresh, firstInvoker, ui, editor >>

\* the request fails before its timeout, with an error that is not a timeout
TransportFail(p, error) ==
  /\ procs[p].pc = "attempt"
  /\ ~MicrotaskPending
  /\ now - procs[p].attemptStart \in Latencies
  /\ AfterError(p, onRequestError(procs[p], error))
  /\ batchOpen' = FALSE
  /\ UNCHANGED << apiKey, calls, batch, batchFresh, firstInvoker, ui, editor >>

\* the axios timeout of the request expires
TransportTimeout(p) ==
  /\ procs[p].pc = "attempt"
  /\ ~MicrotaskPending
  /\ now >= procs[p].attemptStart + timeoutMs(procs[p].timeout)
  /\ AfterError(p, onRequestError(procs[p], TimeoutError))
  /\ batchOpen' = FALSE
  /\ UNCHANGED << apiKey, calls, batch, batchFresh, firstInvoker, ui, editor >>

\* the 2 s delay is over: the next request is sent
RetryWake(p) ==
  /\ procs[p].pc = "retryWait"
  /\ ~MicrotaskPending
  /\ now >= procs[p].wake
  /\ procs' = [procs EXCEPT ![p] = [@ EXCEPT !.pc = "attempt", !.attemptStart = now,
                                             !.requests = @ + 1]]
  /\ batchOpen' = FALSE
  /\ UNCHANGED << now, apiKey, apiValidated, pendingRequests, keywordCache, calls,
                  batch, batchFresh, firstInvoker, ui, editor >>

\* callPplxApi threw before its first await (no credential): the awaiting
\* caller continues in a later microtask
Resume(p) ==
  /\ procs[p].pc = "returned"
  /\ Continue(p, procs[p])
  /\ batchOpen' = FALSE
  /\ UNCHANGED << apiKey, calls, batch, batchFresh, firstInvoker, ui, editor >>

\* the deadlines of the timers that are set
Deadlines ==
  { procs[p].wake : p \in { q \in Callers : procs[q].pc \in {"poll", "retryWait"} } }
    \cup { procs[p].attemptStart + timeoutMs(procs[p].timeout) : p \in { q \in Callers : procs[q].pc = "attempt" } }
    \cup { editor.runs[p].timerDeadline : p \in { q \in Callers : editor.runs[q].timerSet } }

\* time passes up to the next deadline
Advance ==
  /\ Deadlines # {}
  /\ ~MicrotaskPending
  /\ \A d \in Deadlines : d > now
  /\ now' = CHOOSE d \in Deadlines : \A e \in Deadlines : d <= e
  /\ batchOpen' = FALSE
  /\ UNCHANGED << apiKey, apiValidated, pendingRequests, keywordCache, procs, calls,
                  batch, batchFresh, firstInvoker, ui, editor >>

\* with no call in progress, a period as long as the expiry of the cache
\* passes (a period that leaves no entry to expire changes nothing)
Idle ==
  /\ Quiescent /\ ~MicrotaskPending
  /\ \E k \in CacheKeys : Fresh(keywordCache[k], now)
  /\ keywordCache' = Rebase(keywordCache, now + CACHE_EXPIRY_MS)
  /\ batchOpen' = FALSE
  /\ UNCHANGED << now, apiKey, apiValidated, pendingRequests, procs, calls,
                  batch, batchFresh, firstInvoker, ui, editor >>

(***************************************************************************)
(* KeywordMatchVisualizer.tsx: one mounted component.  One getKeywords     *)
(* call runs at a time.                                                    *)
(***************************************************************************)
\* the keyword chips the component renders
Displayed == FilterRemoved(ui.keywords, ui.removedKeywords)

\* validateApiOnce() with isValidated false, inside a handler that leaves the
\* component as u: it joins the validation in progress or starts the probe
validateApiOnce(u) ==
  IF ui.isValidating
    THEN /\ ui' = u
         /\ UNCHANGED extractorVars
    ELSE /\ calls < MaxCalls
         /\ Extract(ProbeCaller, ProbeJob)
         /\ ui' = [u EXCEPT !.isValidating = TRUE, !.validationPromise = "pending"]

\* the effect on [useApiKeywords], when the component mounts
Mount ==
  /\ ~ui.mounted
  /\ validateApiOnce([ui EXCEPT !.mounted = TRUE])

\* toggleKeywordSource, with the effect on [useApiKeywords] that follows it;
\* the checkbox is disabled while isLoading
toggleKeywordSource ==
  /\ ui.mounted /\ ui.run.pc = "idle" /\ ~MicrotaskPending
  /\ IF ~ui.useApiKeywords /\ ~ui.isValidated
       THEN validateApiOnce([ui EXCEPT !.useApiKeywords = TRUE, !.rerun = TRUE])
       ELSE /\ ui' = [ui EXCEPT !.useApiKeywords = ~@, !.rerun = TRUE]
            /\ UNCHANGED extractorVars

\* handleRemoveKeyword on the first chip the component renders
handleRemoveKeyword ==
  /\ ui.mounted /\ ui.run.pc = "idle" /\ ~MicrotaskPending
  /\ Cardinality(ui.removedKeywords) < MaxRemoved
  /\ Displayed # << >>
  /\ ui' = [ui EXCEPT !.removedKeywords = @ \cup {Displayed[1]}, !.rerun = TRUE]
  /\ UNCHANGED extractorVars

\* getKeywords: the fallback to the local extraction, and its finally block
localFallback(u) ==
  [u EXCEPT !.keywords = FilterRemoved(localKeywords[u.run.jd], u.run.removedKeywords),
            !.lastProcessedJob = u.run.jd, !.processingJob = "",
            !.run = [@ EXCEPT !.pc = "idle"], !.source = "local"]

\* variant: the list the API returned is used even when it is empty
apiKeywordsAlwaysUsable(apiKeywords) == TRUE

\* getKeywords: the list the API returned is used (otherwise the local one is)
apiKeywordsUsable(apiKeywords) == Len(apiKeywords) > 0

\* getKeywords from "Try to get keywords from PPLX API if enabled" on
tryApi(u) ==
  IF u.run.useApiKeywords /\ u.isValidated
    THEN /\ calls < MaxCalls
         /\ Extract(MainCaller, u.run.jd)
         /\ ui' = [u EXCEPT !.run = [@ EXCEPT !.pc = "awaitExtract"]]
    ELSE /\ ui' = localFallback(u)
         /\ UNCHANGED extractorVars

\* getKeywords(jobDesc), when the debounce timer fires, up to its first await
getKeywords(jobDesc) ==
  LET u1 == [ui EXCEPT !.processingJob = jobDesc, !.apiError = "",
                       !.run = [pc |-> "start", jd |-> jobDesc,
                                useApiKeywords |-> ui.useApiKeywords,
                                removedKeywords |-> ui.removedKeywords],
                       !.source = "none", !.probeTimedOut = FALSE, !.timedOut = FALSE,
                       !.current = jobDesc, !.rerun = FALSE]
  IN  /\ ui.mounted /\ ui.run.pc = "idle" /\ ~MicrotaskPending
      /\ IF trimLength[jobDesc] < MinJobLength
           THEN /\ ui' = [ui EXCEPT !.keywords = << >>, !.source = "short",
                                     !.run = [@ EXCEPT !.jd = jobDesc],
                                     !.probeTimedOut = FALSE, !.timedOut = FALSE,
                                     !.current = jobDesc, !.rerun = FALSE]
                /\ UNCHANGED extractorVars
         ELSE IF \/ ui.processingJob = jobDesc
                 \/ cacheKeyOf[jobDesc] = cacheKeyOf[ui.lastProcessedJob]
           THEN /\ ui' = [ui EXCEPT !.current = jobDesc, !.rerun = FALSE]
                /\ UNCHANGED extractorVars
         ELSE IF ui.useApiKeywords /\ ~ui.isValidated
           \* the probe and the extraction after it are two calls
           THEN /\ ui.isValidating \/ calls + 1 < MaxCalls
                /\ validateApiOnce([u1 EXCEPT !.run = [@ EXCEPT !.pc = "awaitValidation"]])
         ELSE tryApi(u1)

\* the executor of validationPromise after its await
ProbeSettles ==
  LET r == procs[ProbeCaller]
      isValid == Len(r.result) > 0
  IN  /\ ui.validationPromise = "pending"
      /\ r.pc = "done"
      /\ ui' = [ui EXCEPT !.isValidated = @ \/ isValid,
                           !.validationPromise = IF isValid THEN "true" ELSE "false",
                           !.isValidating = FALSE, !.probed = TRUE,
                           !.probeTimedOut = r.via = "error" /\ r.error = TimeoutError.code]
      /\ UNCHANGED extractorVars

\* getKeywords after await validateApiOnce()
AfterValidation ==
  /\ ui.run.pc = "awaitValidation"
  /\ ui.validationPromise \in {"true", "false"}
  /\ tryApi([ui EXCEPT !.apiError = IF ui.validationPromise = "false"
                                      THEN "API validation failed. Using local extraction."
                                      ELSE @,
                        !.timedOut = ui.probeTimedOut])

\* getKeywords after await extractKeywordsWithPplx(jobDesc)
ExtractSettles ==
  LET r == procs[MainCaller]
      u1 == [ui EXCEPT !.timedOut = r.via = "error" /\ r.error = TimeoutError.code]
  IN  /\ ui.run.pc = "awaitExtract"
      /\ r.pc = "done"
      /\ ui' = IF apiKeywordsUsable(r.result)
                 THEN [u1 EXCEPT !.keywords = FilterRemoved(r.result, ui.run.removedKeywords),
                                 !.lastProcessedJob = ui.run.jd, !.processingJob = "",
                                 !.run = [@ EXCEPT !.pc = "idle"], !.source = "api"]
                 ELSE localFallback([u1 EXCEPT !.apiError =
                        "No keywords returned from API. Using local extraction as fallback."])
      /\ UNCHANGED extractorVars

\* getKeywords(jobDesc), when the debounce timer fires while an earlier
\* getKeywords call awaits its extraction: up to its await.  The API is
\* validated and the toggle is on, since the earlier call reached its extraction
\* and the checkbox is disabled while isLoading.
getKeywordsOverlapping(jobDesc) ==
  /\ ui.mounted /\ ui.run.pc = "awaitExtract" /\ ui.overlap.pc = "idle"
  /\ ui.useApiKeywords /\ ui.isValidated
  /\ ~Running(procs[OverlapCaller])
  /\ ~MicrotaskPending
  /\ IF trimLength[jobDesc] < MinJobLength
       THEN /\ ui' = [ui EXCEPT !.keywords = << >>, !.source = "short", !.current = jobDesc]
            /\ UNCHANGED extractorVars
     ELSE IF \/ ui.processingJob = jobDesc
             \/ cacheKeyOf[jobDesc] = cacheKeyOf[ui.lastProcessedJob]
       THEN /\ ui' = [ui EXCEPT !.current = jobDesc]
            /\ UNCHANGED extractorVars
     ELSE /\ calls < MaxCalls
          /\ Extract(OverlapCaller, jobDesc)
          /\ ui' = [ui EXCEPT !.processingJob = jobDesc, !.apiError = "",
                               !.overlap = [pc |-> "awaitExtract", jd |-> jobDesc,
                                            useApiKeywords |-> ui.useApiKeywords,
                                            removedKeywords |-> ui.removedKeywords],
                               !.current = jobDesc]

\* the overlapping getKeywords call after await extractKeywordsWithPplx(jobDesc)
OverlapSettles ==
  LET r == procs[OverlapCaller]
      shown == IF apiKeywordsUsable(r.result) THEN r.result ELSE localKeywords[ui.overlap.jd]
  IN  /\ ui.overlap.pc = "awaitExtract"
      /\ r.pc = "done"
      /\ ui' = [ui EXCEPT !.keywords = FilterRemoved(shown, ui.overlap.removedKeywords),
                           !.lastProcessedJob = ui.overlap.jd, !.processingJob = "",
                           !.overlap = IdleRun,
                           !.source = IF apiKeywordsUsable(r.result) THEN "api" ELSE "local",
                           !.apiError = IF apiKeywordsUsable(r.result) THEN @
                                        ELSE "No keywords returned from API. Using local extraction as fallback."]
      /\ UNCHANGED extractorVars

(***************************************************************************)
(* ResumeEditor.tsx: one mounted editor                                    *)
(***************************************************************************)
\* position i of text is the start of a line
LineStart(text, i) == i = 1 \/ SubSeq(text, i - 1, i - 1) = "\n"

\* /^#+ /m.test(text)
hasMarkdownHeaders(text) ==
  \E i \in 1..Len(text), j \in 1..Len(text) :
    /\ i < j /\ LineStart(text, i) /\ SubSeq(text, j, j) = " "
    /\ \A k \in i..(j - 1) : SubSeq(text, k, k) = "#"

\* /\*[^*]+\*/m.test(text), which /\*\*[^*]+\*\*/m.test(text) implies
hasMarkdownItalic(text) ==
  \E i \in 1..Len(text), j \in 1..Len(text) :
    /\ i + 1 < j /\ SubSeq(text, i, i) = "*" /\ SubSeq(text, j, j) = "*"
    /\ \A k \in (i + 1)..(j - 1) : SubSeq(text, k, k) # "*"

\* /^- /m.test(text)
hasMarkdownList(text) ==
  \E i \in 1..(Len(text) - 1) : LineStart(text, i) /\ SubSeq(text, i, i + 1) = "- "

\* the formatted content goes through convertMarkdownToHtml
hasMarkdown(text) ==
  hasMarkdownHeaders(text) \/ hasMarkdownItalic(text) \/ hasMarkdownList(text)

\* no formatResumeContent call is in progress and no timer of one is set
EditorIdle == \A p \in Callers : editor.runs[p].pc = "idle" /\ ~editor.runs[p].timerSet

\* the effect on [content, isFormatting, needsFormatting], when the parent
\* passes a new content
ContentReceived(content, needsFormatting) ==
  /\ ~editor.isFormatting /\ EditorIdle
  /\ ~MicrotaskPending
  /\ calls < MaxCalls
  /\ \E cleanContent \in {cleanContentOf(content)} :
       editor' = IF needsFormatting /\ cleanContent # ""
                   THEN [editor EXCEPT !.contentToFormat = cleanContent,
                                       !.displayContent = cleanContent,
                                       !.isFormatting = TRUE, !.effectPending = TRUE,
                                       !.launches = 0]
                 ELSE IF cleanContent # ""
                   THEN [editor EXCEPT !.displayContent = cleanContent]
                 ELSE editor
  /\ UNCHANGED << now, apiKey, apiValidated, pendingRequests, keywordCache, procs, calls,
                  batch, batchOpen, batchFresh, firstInvoker, ui >>

\* slot p holds no call of the editor
FreeSlot(p) ==
  /\ editor.runs[p].pc = "idle" /\ ~editor.runs[p].timerSet
  /\ ~Running(procs[p])

\* the parent renders again while the resume is being formatted, for a change
\* of its own state (the job description is typed): handleResumeChange is a
\* new function, so the effect on [contentToFormat, onChange] is due
ParentRerenders ==
  /\ editor.isFormatting /\ editor.contentToFormat # "" /\ ~editor.effectPending
  /\ ~MicrotaskPending
  \* the model has room for the call the effect starts
  /\ calls < MaxCalls /\ \E p \in Callers : FreeSlot(p)
  /\ editor' = [editor EXCEPT !.effectPending = TRUE]
  /\ UNCHANGED << now, apiKey, apiValidated, pendingRequests, keywordCache, procs, calls,
                  batch, batchOpen, batchFresh, firstInvoker, ui >>

\* the effect on [contentToFormat, onChange]: formatResumeContent up to its await
formatResumeContent ==
  /\ editor.effectPending
  /\ editor.contentToFormat # "" /\ editor.isFormatting
  /\ \E p \in Callers :
       /\ FreeSlot(p) /\ \A q \in Callers : q < p => ~FreeSlot(q)
       /\ editor' = [editor EXCEPT !.effectPending = FALSE,
                                   !.runs[p] = [pc |-> "awaitFormat",
                                                contentToFormat |-> editor.contentToFormat,
                                                timerSet |-> TRUE,
                                                timerDeadline |-> now + WrapperTimeoutMs,
                                                timedOut |-> FALSE],
                                   !.launches = @ + 1]
       /\ procs' = [procs EXCEPT ![p] =
                      fixResumeFormattingEnter(
                        ReplaceFirst(editor.contentToFormat, FormattedMarker, ""), now)]
  /\ calls' = calls + 1
  /\ UNCHANGED << now, apiKey, apiValidated, pendingRequests, keywordCache,
                  batch, batchOpen, batchFresh, firstInvoker, ui >>

\* the callback of the timer of the formatResumeContent call of slot p
WrapperTimeout(p) ==
  /\ editor.runs[p].timerSet /\ now >= editor.runs[p].timerDeadline
  /\ ~MicrotaskPending
  /\ editor' = [editor EXCEPT !.runs[p] = [@ EXCEPT !.timerSet = FALSE, !.timedOut = TRUE],
                              !.isFormatting = FALSE, !.contentToFormat = "",
                              !.displayContent = editor.runs[p].contentToFormat,
                              !.reported = editor.runs[p].contentToFormat \o FormattedMarker]
  /\ UNCHANGED << now, apiKey, apiValidated, pendingRequests, keywordCache, procs, calls,
                  batch, batchOpen, batchFresh, firstInvoker, ui >>

\* skipFormatting, the button shown while isFormatting
skipFormatting ==
  /\ editor.isFormatting /\ editor.contentToFormat # "" /\ ~editor.effectPending
  /\ ~MicrotaskPending
  /\ editor' = [editor EXCEPT !.isFormatting = FALSE, !.contentToFormat = "",
                              !.displayContent = editor.contentToFormat,
                              !.reported = editor.contentToFormat \o FormattedMarker]
  /\ UNCHANGED << now, apiKey, apiValidated, pendingRequests, keywordCache, procs, calls,
                  batch, batchOpen, batchFresh, firstInvoker, ui >>

\* handleEditorChange: the user edits the text; the editor is rendered when
\* isFormatting is false
handleEditorChange(newContent) ==
  /\ ~editor.isFormatting /\ editor.displayContent # ""
  /\ editor.displayContent # newContent
  /\ ~MicrotaskPending
  /\ editor' = [editor EXCEPT !.displayContent = newContent, !.reported = newContent]
  /\ UNCHANGED << now, apiKey, apiValidated, pendingRequests, keywordCache, procs, calls,
                  batch, batchOpen, batchFresh, firstInvoker, ui >>

\* the formatResumeContent call of slot p after await
\* fixResumeFormatting(contentToSend), for a formatted content that does not
\* go through convertMarkdownToHtml
EditorSettles(p) ==
  /\ editor.runs[p].pc = "awaitFormat" /\ procs[p].pc = "done"
  /\ \E cleanFormattedContent \in {cleanContentOf(procs[p].formatted)} :
       \E shown \in {IF cleanFormattedContent # "" THEN cleanFormattedContent
                      ELSE editor.runs[p].contentToFormat} :
         editor' = [editor EXCEPT !.runs[p] = IdleFormatRun,
                                  !.isFormatting = FALSE, !.contentToFormat = "",
                                  !.displayContent = shown,
                                  !.reported = shown \o FormattedMarker]
  \* with no call in progress and no timer set, the origin of the clock moves
  \* to this moment
  /\ \E quiet \in {Quiescent /\ \A q \in Callers \ {p} : ~editor.runs[q].timerSet} :
       /\ now' = IF quiet THEN 0 ELSE now
       /\ keywordCache' = IF quiet THEN Rebase(keywordCache, now) ELSE keywordCache
  /\ UNCHANGED << apiKey, apiValidated, pendingRequests, procs, calls,
                  batch, batchOpen, batchFresh, firstInvoker, ui >>

\* the calls of the keyword extractor
Next ==
  \/ \E p \in Callers, jd \in JobDescriptions : StartExtract(p, jd)
  \/ \E p \in Callers : PollTick(p)
  \/ \E p \in Callers, content \in Responses : TransportRespond(p, content)
  \/ \E p \in Callers, error \in {HttpError, MalformedError} : TransportFail(p, error)
  \/ \E p \in Callers : TransportTimeout(p)
  \/ \E p \in Callers : RetryWake(p)
  \/ \E p \in Callers : Resume(p)
  \/ Advance
  \/ Idle

Spec == Init /\ [][Next]_vars

\* direct calls of callPplxApi, with every value of the retries option
NextTransport ==
  \/ \E p \in Callers, retries \in RetriesOptions : StartDirect(p, retries)
  \/ \E p \in Callers, content \in Responses : TransportRespond(p, content)
  \/ \E p \in Callers, error \in {HttpError, MalformedError} : TransportFail(p, error)
  \/ \E p \in Callers : TransportTimeout(p)
  \/ \E p \in Callers : RetryWake(p)
  \/ \E p \in Callers : Resume(p)
  \/ Advance

SpecTransport == Init /\ [][NextTransport]_vars

\* the component and the calls it makes
NextUi ==
  \/ Mount
  \/ toggleKeywordSource
  \/ handleRemoveKeyword
  \/ \E jobDesc \in EnteredJobs : getKeywords(jobDesc)
  \/ ProbeSettles
  \/ AfterValidation
  \/ ExtractSettles
  \/ \E p \in Callers, content \in Responses : TransportRespond(p, content)
  \/ \E p \in Callers, error \in {HttpError, MalformedError} : TransportFail(p, error)
  \/ \E p \in Callers : TransportTimeout(p)
  \/ \E p \in Callers : RetryWake(p)
  \/ \E p \in Callers : Resume(p)
  \/ Advance
  \/ Idle

SpecUi == Init /\ [][NextUi]_vars

\* the component with getKeywords calls that overlap
NextOverlap ==
  \/ Mount
  \/ \E jobDesc \in EnteredJobs : getKeywords(jobDesc)
  \/ \E jobDesc \in EnteredJobs : getKeywordsOverlapping(jobDesc)
  \/ ProbeSettles
  \/ AfterValidation
  \/ ExtractSettles
  \/ OverlapSettles
  \/ \E p \in Callers, content \in Responses : TransportRespond(p, content)
  \/ \E p \in Callers, error \in {HttpError, MalformedError} : TransportFail(p, error)
  \/ \E p \in Callers : TransportTimeout(p)
  \/ \E p \in Callers : RetryWake(p)
  \/ \E p \in Callers : Resume(p)
  \/ Advance

SpecOverlap == Init /\ [][NextOverlap]_vars

\* calls of the keyword extractor one after the other, on the inputs of the parser
NextParse ==
  \/ \E p \in Callers, jd \in ParseJobs : ExtractAlone(p, jd)
  \/ \E p \in Callers, content \in ParseResponses : TransportRespond(p, content)
  \/ \E p \in Callers, error \in {HttpError, MalformedError} : TransportFail(p, error)
  \/ \E p \in Callers : TransportTimeout(p)
  \/ \E p \in Callers : RetryWake(p)
  \/ \E p \in Callers : Resume(p)
  \/ Advance

SpecParse == Init /\ [][NextParse]_vars

\* the responses the formatter of the model covers: the passes over the
\* PROJECTS, EXPERIENCE and EDUCATION sections change a response that has
\* such a section, and are not part of cleanedResponse
PlainFormatResponses == { content \in FormatResponses : ~hasSection(content) }

\* direct calls of fixResumeFormatting
NextFormat ==
  \/ \E p \in Callers, resumeContent \in ResumeContents : StartFormat(p, resumeContent)
  \/ \E p \in Callers, content \in PlainFormatResponses : TransportRespond(p, content)
  \/ \E p \in Callers, error \in {HttpError, MalformedError} : TransportFail(p, error)
  \/ \E p \in Callers : TransportTimeout(p)
  \/ \E p \in Callers : RetryWake(p)
  \/ \E p \in Callers : Resume(p)
  \/ Advance

SpecFormat == Init /\ [][NextFormat]_vars

\* contents the parent passes to the editor: plain, and marked as processed
EditorUploads ==
  { "Jane Doe\n@ Built APIs",
    "Jane Doe" \o FormattedMarker }

\* the responses whose cleaned text does not go through convertMarkdownToHtml
EditorResponses ==
  { content \in PlainFormatResponses : ~hasMarkdown(cleanedResponse(content)) }

\* what the user types into the editor
EditorEdits == { "Jane Doe, edited" }

\* the editor and the call it makes
NextEditor ==
  \/ \E content \in EditorUploads, needsFormatting \in BOOLEAN :
       ContentReceived(content, needsFormatting)
  \/ ParentRerenders
  \/ formatResumeContent
  \/ \E p \in Callers : WrapperTimeout(p)
  \/ skipFormatting
  \/ \E newContent \in EditorEdits : handleEditorChange(newContent)
  \/ \E p \in Callers : EditorSettles(p)
  \/ \E p \in Callers, content \in EditorResponses : TransportRespond(p, content)
  \/ \E p \in Callers, error \in {HttpError, MalformedError} : TransportFail(p, error)
  \/ \E p \in Callers : TransportTimeout(p)
  \/ \E p \in Callers : RetryWake(p)
  \/ \E p \in Callers : Resume(p)
  \/ Advance

SpecEditor == Init /\ [][NextEditor]_vars

\* the inputs of the calls whose termination is checked: a job description
\* that reaches the transport, one that is too short; an empty response, an array
LiveJobs == { "Experience with Python and C++ required", "C++ & C# dev" }
LiveResponses == { "", "[\"Python\", \"C++\"]" }

NextLive ==
  \/ \E p \in Callers, jd \in LiveJobs : StartExtract(p, jd)
  \/ \E p \in Callers : PollTick(p)
  \/ \E p \in Callers, content \in LiveResponses : TransportRespond(p, content)
  \/ \E p \in Callers, error \in {HttpError, MalformedError} : TransportFail(p, error)
  \/ \E p \in Callers : TransportTimeout(p)
  \/ \E p \in Callers : RetryWake(p)
  \/ \E p \in Callers : Resume(p)
  \/ Advance

\* The event loop runs a queued continuation, and the callback of a timer
\* whose delay is over (setTimeout of the poll loop and of the retry delay,
\* the timeout of axios, which ends a request that got no answer); time
\* passes.  No answer and no new call is ever required to come.
EventLoopFairness ==
  /\ WF_vars(Advance)
  /\ \A p \in Callers :
       /\ WF_vars(PollTick(p))
       /\ WF_vars(TransportTimeout(p))
       /\ WF_vars(RetryWake(p))
       /\ WF_vars(Resume(p))

SpecLive == Init /\ [][NextLive]_vars /\ EventLoopFairness

(***************************************************************************)
(* Properties                                                              *)
(***************************************************************************)
RECURSIVE Invocations(_)
Invocations(S) ==
  IF S = {} THEN 0
  ELSE LET q == CHOOSE x \in S : TRUE IN procs[q].invocations + Invocations(S \ {q})

\* a batch of at least two simultaneous calls with one fingerprint has finished
BatchDone == Cardinality(batch) >= 2 /\ BatchOver

\* the first call of the batch to invoke callPplxApi cached its keywords while
\* every other call of the batch was still polling
FirstStoredInTime ==
  /\ firstInvoker \in batch
  /\ procs[firstInvoker].stored
  /\ \A q \in batch : ~procs[q].gaveUp

SameResults == \A q1, q2 \in batch : procs[q1].result = procs[q2].result

\* no call of the batch returned before the fingerprint was looked up (blank
\* input, validation short-circuit) or for a cleaned input that is too short
ReachesTransport == \A q \in batch : procs[q].via \notin {"blank", "validation", "short"}

C2_SameListAlways == BatchDone => SameResults

\* C2, amended: the N callers receive the same list when the first call to
\* invoke callPplxApi gets keywords parsed and cached before any other call of
\* the batch has used up its 10 polls.
C2_SameListWhenCachedInTime == (BatchDone /\ FirstStoredInTime) => SameResults

C2_Witness ==
  /\ BatchDone /\ FirstStoredInTime
  /\ \E q \in batch : q # firstInvoker /\ procs[q].via = "concurrent" /\ Len(procs[q].result) > 1

\* C3: extractKeywordsWithPplx never rejects: every finished call resolved, to
\* a sequence of keywords, whatever the outcome of the request and the state
\* of the cache and of the pending set.
C3_NeverRejects ==
  \A p \in Callers :
    (procs[p].op = "extract" /\ procs[p].pc = "done") =>
      /\ procs[p].settled = "resolved"
      /\ procs[p].result \in Seq(STRING)

C3_Witness ==
  \E p \in Callers :
    /\ procs[p].op = "extract" /\ procs[p].pc = "done"
    /\ procs[p].via = "error" /\ procs[p].error = MalformedError.code

C5_NoStaleEntryReturned ==
  \A p \in Callers :
    (procs[p].pc = "done" /\ procs[p].via \in {"cache", "concurrent"}) => ~procs[p].servedStale

\* an extraction call is in flight: it marked its key and has not finished
InFlight(p) == procs[p].op = "extract" /\ Running(procs[p]) /\ procs[p].pc # "poll"

\* C6, as claimed: a key is in pendingRequests if and only if a call for that
\* key is in flight.
C6_PendingIffInFlight ==
  \A k \in CacheKeys :
    k \in pendingRequests <=> \E p \in Callers : InFlight(p) /\ procs[p].cacheKey = k

\* C7: whenever no call is in progress, the pending set is empty.
C7_NoLeftoverPending == Quiescent => pendingRequests = {}

C7_Witness ==
  /\ Quiescent /\ pendingRequests = {}
  /\ \E p \in Callers : procs[p].pc = "done" /\ procs[p].via = "error"
  /\ \E p \in Callers : procs[p].pc = "done" /\ procs[p].via = "short"

\* C8, as claimed: with the retries option given, callPplxApi makes at most
\* retries + 1 requests.
C8_AtMostRetriesPlusOne ==
  \A p \in Callers :
    (procs[p].op = "direct" /\ procs[p].retries.set) =>
      procs[p].requests <= procs[p].retries.val + 1

\* C9: callPplxApi retries only after a timeout: every error before the last
\* one is a timeout; a call that failed with another error failed with the
\* error of its last request; without a credential no request is made.
C9_RetryOnlyAfterTimeout ==
  \A p \in Callers :
    LET r == procs[p]
        n == Len(r.errors)
    IN  r.op = "direct" =>
          /\ \A i \in 1..(n - 1) : r.errors[i] = TimeoutError.code
          /\ (Running(r) /\ r.pc # "returned" /\ n > 0) => r.errors[n] = TimeoutError.code
          /\ r.requests \in {n, n + 1}
          /\ (r.pc = "done" /\ r.settled = "rejected" /\ r.error # MissingKeyError.code) =>
               (r.error = r.errors[n] /\ r.requests = n)
          /\ r.error = MissingKeyError.code => r.requests = 0

C9_Witness ==
  \E p \in Callers :
    /\ procs[p].op = "direct" /\ procs[p].pc = "done"
    /\ procs[p].errors = << TimeoutError.code, HttpError.code >>
    /\ procs[p].error = HttpError.code

NoDuplicates(list) ==
  \A i, j \in 1..Len(list) : i # j => ToLowerCase(list[i]) # ToLowerCase(list[j])

\* C10: a keyword list returned by extractKeywordsWithPplx holds no two
\* strings equal when case is ignored, and no empty string.
C10_NoDuplicateNoEmpty ==
  \A p \in Callers :
    (procs[p].op = "extract" /\ procs[p].pc = "done") =>
      /\ NoDuplicates(procs[p].result)
      /\ \A i \in 1..Len(procs[p].result) : procs[p].result[i] # ""

C10_Witness ==
  \E p \in Callers :
    /\ procs[p].pc = "done" /\ procs[p].via = "parsed"
    /\ procs[p].result = << "React", "C++", "Python" >>

\* the valid keywords among what the cascade parsed out of a response
parsedKeywords(response) == validKeywords(directParse(response).items)

\* term i of the dictionary is present in the job description or in the response
TermPresent(i, jobDescription, rawResponse) ==
  \/ Includes(jobDescription, importantTerms[i][2])
  \/ RegexTestWord(importantTerms[i][1], jobDescription)
  \/ RegexTestWord(importantTerms[i][1], rawResponse)

\* the two, tabulated over the inputs of the parser
parsedKeywordsOf == [c \in ParseResponses |-> parsedKeywords(c)]
presentTerms ==
  [c \in ParseResponses, jd \in ParseJobs |->
     { i \in 1..Len(importantTerms) : TermPresent(i, jd, c) }]

\* position of the first element of list that equals e but for its case
FirstAt(list, e) == CHOOSE i \in 1..Len(list) : ToLowerCase(list[i]) = ToLowerCase(e)
                                                 /\ \A j \in 1..(i - 1) : ToLowerCase(list[j]) # ToLowerCase(e)

\* result is parsed keywords in the order of parsed, then injected terms
ParsedThenInjected(result, parsed) ==
  \E n \in 0..Len(result) :
    /\ \A i \in 1..n : ToLowerCase(result[i]) \in LowerSet(parsed)
    /\ \A i, j \in 1..n : i < j => FirstAt(parsed, result[i]) < FirstAt(parsed, result[j])
    /\ \A i \in (n + 1)..Len(result) :
         /\ ToLowerCase(result[i]) \notin LowerSet(parsed)
         /\ \E k \in 1..Len(importantTerms) : importantTerms[k][2] = result[i]

\* the claim of C11 for the finished call r
EnrichedAsClaimed(r) ==
  \E parsed \in {parsedKeywordsOf[r.response]} :
    /\ \A i \in presentTerms[r.response, r.jd] :
         ToLowerCase(importantTerms[i][2]) \notin LowerSet(parsed)
           => SeqContains(r.result, importantTerms[i][2])
    /\ ParsedThenInjected(r.result, parsed)

\* C11: a call that parsed a response returns every term of the dictionary that
\* is present in the job description or in the response and that the parsed
\* keywords lack, in its canonical spelling; the parsed keywords come first, in
\* their order, and the injected terms after them.
C11_EnrichmentInjectsKnownTerms ==
  [][\A p \in Callers :
       (procs[p].pc # "done" /\ procs'[p].pc = "done" /\ procs'[p].via = "parsed")
         => EnrichedAsClaimed(procs'[p])]_vars

C11_Witness ==
  \E p \in Callers :
    /\ procs[p].via = "parsed"
    /\ procs[p].jd = "Experience with Python and C++ required"
    /\ procs[p].response = "Sure! Here's the list: [\"Python\"]"
    /\ procs[p].result = << "Python", "C++" >>

\* a finished fixResumeFormatting call
FormatDone(r) == r.op = "format" /\ r.pc = "done"

\* the content without the processed marker it ends with, if it ends with one
WithoutTrailingMarker(content) ==
  IF EndsWith(content, FormattedMarker)
    THEN SubSeq(content, 1, Len(content) - Len(FormattedMarker))
    ELSE content

\* the cleaned responses, tabulated over the responses of the model
cleanedOf == [content \in FormatResponses |-> cleanedResponse(content)]

\* C12: a fixResumeFormatting call on a content that is not blank, whose
\* callPplxApi call failed, resolves to the content without the marker at its
\* end, followed by the marker.
C12_FailureReturnsOriginal ==
  \A p \in Callers :
    (/\ FormatDone(procs[p]) /\ Trim(procs[p].resumeContent) # ""
     /\ procs[p].tReturn.kind = "error")
      => /\ procs[p].settled = "resolved"
         /\ procs[p].formatted = WithoutTrailingMarker(procs[p].resumeContent) \o FormattedMarker

\* C13: a fixResumeFormatting call on a content that ends with the marker
\* sends no request and resolves to that very content.
C13_MarkedContentNotResent ==
  \A p \in Callers :
    (procs[p].op = "format" /\ EndsWith(procs[p].resumeContent, FormattedMarker))
      => /\ procs[p].requests = 0
         /\ procs[p].pc = "done" => procs[p].formatted = procs[p].resumeContent

\* C14: for a content longer than the cap and a response that is not empty
\* once cleaned, the result without its marker is as long as the cleaned
\* response plus the part of the content beyond the cap.
C14_LengthOfMergedResult ==
  \A p \in Callers :
    (/\ FormatDone(procs[p]) /\ Len(procs[p].resumeContent) > MAX_CONTENT_LENGTH
     /\ procs[p].tReturn.kind = "content"
     /\ cleanedOf[procs[p].tReturn.content] # "")
      => Len(WithoutTrailingMarker(procs[p].formatted))
           = Len(cleanedOf[procs[p].tReturn.content])
               + (Len(procs[p].resumeContent) - MAX_CONTENT_LENGTH)

\* C15: of a content longer than the cap, the request carries the first
\* MAX_CONTENT_LENGTH characters and an ellipsis only, and the result without
\* its marker ends with the rest of the content, character for character.
C15_RemainderKeptVerbatim ==
  \A p \in Callers :
    (procs[p].op = "format" /\ Len(procs[p].resumeContent) > MAX_CONTENT_LENGTH)
      => /\ procs[p].sent \in { SubSeq(procs[p].resumeContent, 1, MAX_CONTENT_LENGTH) \o dots
                                 : dots \in {"...", " ..."} }
         /\ procs[p].pc = "done"
              => EndsWith(WithoutTrailingMarker(procs[p].formatted),
                          SubSeq(procs[p].resumeContent, MAX_CONTENT_LENGTH + 1,
                                 Len(procs[p].resumeContent)))

\* C16: a fixResumeFormatting call on a content that is not blank never
\* resolves to an empty document: when the cleaned response is empty the result
\* is the content as it was given, marked, and in every case the result
\* without its marker is not empty.
C16_NeverEmptyDocument ==
  \A p \in Callers :
    (FormatDone(procs[p]) /\ Trim(procs[p].resumeContent) # "")
      => /\ (procs[p].tReturn.kind = "content" /\ cleanedOf[procs[p].tReturn.content] = "")
              => procs[p].formatted
                   = WithoutTrailingMarker(procs[p].resumeContent) \o FormattedMarker
         /\ WithoutTrailingMarker(procs[p].formatted) # ""

\* C17: once a probe of validateApiOnce has completed, whatever its result, no
\* request of another probe is in flight.
C17_ProbeOnce ==
  ui.probed => ~(procs[ProbeCaller].op = "extract" /\ procs[ProbeCaller].pc = "attempt")

\* getKeywords has run for the job description ui.current, of at least
\* MinJobLength characters, and nothing it depends on changed since
KeywordsSettled ==
  /\ ui.mounted /\ ui.run.pc = "idle" /\ ~ui.rerun
  /\ ui.current # "" /\ trimLength[ui.current] >= MinJobLength

\* C18: when the processing of the current job description has settled with
\* the toggle off, or with no credential for the API, the component displays
\* the keywords of the local extraction of that job description.
C18_LocalKeywordsWhenOff ==
  (KeywordsSettled /\ (~ui.useApiKeywords \/ ~apiKey))
    => Displayed = FilterRemoved(localKeywords[ui.current], ui.removedKeywords)

\* C19: the timer of formatResumeContent never fires while the
\* fixResumeFormatting call it bounds is still in progress.
C19_WrapperOutlastsRetries ==
  \A p \in Callers :
    ~(/\ editor.runs[p].timedOut
      /\ procs[p].op = "format" /\ Running(procs[p]))

\* C20: no cache entry holds an empty keyword list, and no call returns from
\* the cascade with the empty list a response parsed to.
C20_NoEmptyListCached ==
  /\ \A k \in CacheKeys : keywordCache[k].present => keywordCache[k].keywords # << >>
  /\ \A p \in Callers : procs[p].via = "parsed" => procs[p].result # << >>

\* the last resort as C21 describes it: the tokens of the response between
\* white space, longer than 3 characters and outside the stopwords, the first
\* 10 of them
lastResortStopwords == { "the", "and", "that", "with", "for", "from" }
lastResortCap == 10

possibleSkills(result) ==
  LET kept == SelectSeq(Words(result),
                        LAMBDA word : Len(word) > 3 /\ ToLowerCase(word) \notin lastResortStopwords)
  IN  SubSeq(kept, 1, IF Len(kept) < lastResortCap THEN Len(kept) ELSE lastResortCap)

\* the responses that are not blank and that no approach of the cascade
\* accepts, with their tokens
defeatsCascade == [c \in Responses |-> Trim(c) # "" /\ directParse(c).stage = 0]
possibleSkillsOf == [c \in Responses |-> possibleSkills(c)]

\* C21, as claimed: a call whose response is not blank and is accepted by none
\* of the four parsing approaches returns the white space tokens of the
\* response, without the short ones and the stopwords, at most 10 of them; the
\* list is not empty when a token qualifies.
C21_LastResortTokenizes ==
  \A p \in Callers :
    (/\ procs[p].op = "extract" /\ procs[p].pc = "done"
     /\ procs[p].via \in {"parsed", "parseFailed"}
     /\ procs[p].response \in Responses
     /\ defeatsCascade[procs[p].response])
      => procs[p].result = possibleSkillsOf[procs[p].response]

\* text holds one of the explanationMarkers
HasExplanation(text) ==
  \E i \in 1..Len(explanationMarkers) : Includes(text, explanationMarkers[i])

\* C22, as claimed: the cleaned response of a finished fixResumeFormatting
\* call holds none of the explanationMarkers, wherever the marker stood in the
\* response, and neither does the result for a content within the cap.
C22_NoExplanationLeft ==
  \A p \in Callers :
    (/\ FormatDone(procs[p]) /\ Trim(procs[p].resumeContent) # ""
     /\ procs[p].tReturn.kind = "content")
      => /\ ~HasExplanation(cleanedOf[procs[p].tReturn.content])
         /\ Len(procs[p].resumeContent) <= MAX_CONTENT_LENGTH
              => ~HasExplanation(procs[p].formatted)

\* caller p finishes an extractKeywordsWithPplx call in this step
Finishes(p) == procs[p].pc # "done" /\ procs'[p].pc = "done" /\ procs'[p].op = "extract"

\* the entry of key k is the same before and after the step: same keywords,
\* same creation time (the same age on the clock, or expired before and after)
SameEntry(k) ==
  /\ keywordCache'[k].present = keywordCache[k].present
  /\ keywordCache'[k].keywords = keywordCache[k].keywords
  /\ keywordCache[k].present =>
       \/ now' - keywordCache'[k].timestamp = now - keywordCache[k].timestamp
       \/ ~Fresh(keywordCache[k], now) /\ ~Fresh(keywordCache'[k], now')

\* C23: in every step of a call, the entry of a key changes only when a call
\* for that key finishes with a response parsed into keywords, and the entry
\* then holds those keywords and the current time; apiValidated changes only
\* in such a step.  So a call that ends in failure, in an empty response, on a
\* too short input or on a cache hit leaves the cache, the creation times and
\* apiValidated as they were.
C23_CacheWrittenOnlyOnParse ==
  [][procs' # procs =>
       /\ \A k \in CacheKeys :
            IF \E p \in Callers : Finishes(p) /\ procs'[p].via = "parsed" /\ procs'[p].cacheKey = k
              THEN \E p \in Callers :
                     /\ Finishes(p) /\ procs'[p].via = "parsed" /\ procs'[p].cacheKey = k
                     /\ keywordCache'[k] = [present |-> TRUE, keywords |-> procs'[p].result,
                                            timestamp |-> now']
              ELSE SameEntry(k)
       /\ apiValidated' # apiValidated =>
            \E p \in Callers : Finishes(p) /\ procs'[p].via = "parsed"]_vars

\* calls ended in failure, in an empty response, on a too short input and on
\* a cache hit are all seen next to an entry of their key or of another one
C23_Witness ==
  /\ \E p \in Callers :
       /\ procs[p].pc = "done" /\ procs[p].via \in {"error", "emptyResponse"}
       /\ keywordCache[procs[p].cacheKey].present
       /\ keywordCache[procs[p].cacheKey].keywords # << >>
  /\ \E p \in Callers : procs[p].pc = "done" /\ procs[p].via \in {"cache", "short"}

\* C24: every extractKeywordsWithPplx call returns: a call in progress is
\* eventually finished.  On the way, a call that polls has made fewer than
\* MaxPollAttempts turns of the loop and wakes within PollIntervalMs, and a
\* call makes at most DefaultRetries + 1 requests.
C24_EveryCallReturns ==
  /\ [](\A p \in Callers :
          /\ procs[p].pc = "poll" =>
               /\ procs[p].attempts < MaxPollAttempts
               /\ procs[p].wake <= now + PollIntervalMs
          /\ procs[p].requests <= DefaultRetries + 1)
  /\ \A p \in Callers : Running(procs[p]) ~> ~Running(procs[p])

\* a call that polled as long as the loop allows, then called the transport
\* itself, timed out on every request and returned
C24_Witness ==
  \E p \in Callers :
    /\ procs[p].op = "extract" /\ procs[p].pc = "done"
    /\ procs[p].gaveUp /\ procs[p].requests = DefaultRetries + 1
    /\ procs[p].via = "error" /\ procs[p].error = TimeoutError.code

\* C25, as claimed: a call that finishes without a request while a fresh entry
\* exists for its job description (stored by the first successful call for
\* that text) returns the keywords of that entry, also when the job
\* description is a validation query and the API has been validated.
C25_RepeatedCallSameList ==
  [][\A p \in Callers :
       (/\ Finishes(p)
        /\ procs'[p].via \in {"cache", "concurrent", "validation"}
        /\ Fresh(keywordCache[procs'[p].cacheKey], now))
         => procs'[p].result = keywordCache[procs'[p].cacheKey].keywords]_vars

\* C26: globalValidationState.isValidated implies globalState.apiValidated in
\* every state; neither flag is ever reset; apiValidated is set only in the
\* step in which a call for a validation query returns keywords parsed from a
\* response.
C26_ValidationFlagsConsistent ==
  /\ [](ui.isValidated => apiValidated)
  /\ [][/\ apiValidated => apiValidated'
        /\ ui.isValidated => ui'.isValidated
        /\ (~apiValidated /\ apiValidated') =>
             \E p \in Callers :
               /\ Finishes(p) /\ procs'[p].via = "parsed"
               /\ isValidationJob[procs'[p].jd]]_vars

\* both flags are set, and a later extraction has failed
C26_Witness ==
  /\ ui.isValidated /\ apiValidated
  /\ procs[MainCaller].pc = "done" /\ procs[MainCaller].via = "error"

\* the formatting was given up, by skipFormatting or by a timer, and the
\* formatResumeContent call of slot p still awaits its fixResumeFormatting call
FormattingGivenUp(p) == editor.runs[p].pc = "awaitFormat" /\ ~editor.isFormatting

\* C27, as claimed: when the formatting was given up, the step in which
\* formatResumeContent continues after its await leaves the displayed content
\* and the content reported through onChange as they are.
C27_LateCompletionChangesNothing ==
  [][\A p \in Callers :
       (FormattingGivenUp(p) /\ editor'.runs[p].pc # "awaitFormat")
         => /\ editor'.displayContent = editor.displayContent
            /\ editor'.reported = editor.reported]_vars

\* every getKeywords call and every extraction has finished, the job
\* description entered last is long enough to be processed, and the list on
\* display is the one a getKeywords call set after it processed a job
\* description (not the empty list set for a text that is too short)
AllExtractionsFinished ==
  /\ ui.mounted /\ ui.run.pc = "idle" /\ ui.overlap.pc = "idle"
  /\ Quiescent /\ ~MicrotaskPending
  /\ ui.current # "" /\ trimLength[ui.current] >= MinJobLength
  /\ ui.source \in {"api", "local"}

\* C28, as claimed: when every extraction has finished, the component displays
\* the keywords processed for the job description entered last: the list its
\* extraction returned, without the removed keywords.
C28_LastEnteredJobDisplayed ==
  AllExtractionsFinished =>
    /\ cacheKeyOf[ui.lastProcessedJob] = cacheKeyOf[ui.current]
    /\ \A p \in Callers :
         (procs[p].pc = "done" /\ procs[p].jd = ui.current /\ procs[p].result # << >>)
           => Displayed = FilterRemoved(procs[p].result, ui.removedKeywords)

\* C29, as claimed: for one uploaded resume the editor starts at most one
\* fixResumeFormatting call and sets at most one timer, however often the
\* parent renders again while the resume is being formatted.
C29_OneFormattingPerUpload ==
  /\ editor.launches <= 1
  /\ Cardinality({ p \in Callers : editor.runs[p].timerSet }) <= 1
  /\ Cardinality({ p \in Callers : procs[p].op = "format" /\ Running(procs[p]) }) <= 1

\* text holds the marker at its end and nowhere else
OnlyTrailingMarker(text) ==
  /\ EndsWith(text, FormattedMarker)
  /\ ~Includes(SubSeq(text, 1, Len(text) - 1), FormattedMarker)

\* text holds the marker at its end or not at all
MarkerAtMostSuffix(text) == ~Includes(SubSeq(text, 1, Len(text) - 1), FormattedMarker)

\* the same, tabulated over the contents of the model
markerAtMostSuffix == [content \in ResumeContents |-> MarkerAtMostSuffix(content)]

\* a finished call on a blank content returned the empty string and made no
\* call of callPplxApi
BlankReturnsEmpty(r) == r.formatted = "" /\ r.invocations = 0 /\ r.requests = 0

\* C30, as claimed: a finished fixResumeFormatting call on a content that holds
\* the marker at most at its end resolves to a text with the marker at its
\* end and nowhere else; on a blank content it resolves to the empty string
\* and makes no request.
C30_OneTrailingMarker ==
  \A p \in Callers :
    (FormatDone(procs[p]) /\ procs[p].resumeContent \in ResumeContents) =>
      IF Trim(procs[p].resumeContent) = "" THEN BlankReturnsEmpty(procs[p])
      ELSE (markerAtMostSuffix[procs[p].resumeContent] /\ procs[p].formatted # "")
             => OnlyTrailingMarker(procs[p].formatted)

====
